---- MODULE Spec2Model ----
(***************************************************************************)
(* Model of the trip-itinerary backend (backend-api/server.js): the AI     *)
(* suggestion orchestrator (getGeminiSuggestion and the retry layers below *)
(* it), the lazy model initialisation, and the itinerary routes.           *)
(***************************************************************************)
EXTENDS Integers, Sequences, FiniteSets, Bags, TLC

\* ---------------------------------------------------------------- bounds
\* Longest raw text a provider answer carries in the model.
MaxTextLen == 2

\* ------------------------------------------------------ program constants
GEMINI_MAX_RETRIES == 1
GEMINI_BACKOFF_BASE_MS == 400
OrchTries == 1
BizBackoffMs == 500
NumCandidates == 3

\* ------------------------------------------------------------- JS values
\* JS null in a text position: distinct from every string of the model.
Null == <<"null">>

\* Characters of provider texts: a blank and a letter.
Chars == {" ", "a"}

RECURSIVE SeqsUpTo(_, _)
SeqsUpTo(S, n) ==
    IF n = 0 THEN {<<>>}
    ELSE LET shorter == SeqsUpTo(S, n - 1)
         IN  shorter \cup {Append(s, c) : s \in {t \in shorter : Len(t) = n - 1}, c \in S}

ProviderTexts == SeqsUpTo(Chars, MaxTextLen)

\* String.prototype.trim on a text: leading and trailing blanks removed.
RECURSIVE TrimLeft(_)
TrimLeft(t) == IF t # <<>> /\ Head(t) = " " THEN TrimLeft(Tail(t)) ELSE t

RECURSIVE TrimRight(_)
TrimRight(t) ==
    IF t # <<>> /\ t[Len(t)] = " " THEN TrimRight(SubSeq(t, 1, Len(t) - 1)) ELSE t

Trim(t) == TrimRight(TrimLeft(t))

\* Truthiness of a text value (null and "" are falsy).
Truthy(t) == t # Null /\ t # <<>>

\* ------------------------------------------------- network error classes
\* What a message contains of the alternatives the two regular expressions
\* look for (the /i flag and the substring match are folded into the table).
MessagePatterns(m) ==
    CASE m = "The user aborted a request." -> {"aborted"}
      [] m = "read ECONNRESET" -> {"ECONNRESET"}
      [] m = "connect ETIMEDOUT" -> {"ETIMEDOUT"}
      [] m = "getaddrinfo EAI_AGAIN" -> {"EAI_AGAIN"}
      [] m = "fetch failed" -> {"fetch failed"}
      [] OTHER -> {}

\* One node-fetch outcome: a response, or a thrown error with name and message.
NetOk == [ok |-> TRUE, name |-> "", message |-> ""]
NetErrors ==
    { [ok |-> FALSE, name |-> "AbortError", message |-> "The user aborted a request."],
      [ok |-> FALSE, name |-> "FetchError", message |-> "read ECONNRESET"],
      [ok |-> FALSE, name |-> "FetchError", message |-> "getaddrinfo EAI_AGAIN"],
      [ok |-> FALSE, name |-> "FetchError", message |-> "certificate has expired"] }
NetOutcomes == {NetOk} \cup NetErrors

\* hardenedFetch's classification of a caught error.
IsNetworky(err) ==
    \/ err.name = "AbortError"
    \/ MessagePatterns(err.message) \cap
         {"ECONNRESET", "ETIMEDOUT", "ENETUNREACH", "EAI_AGAIN", "fetch failed"} # {}

RECURSIVE Pow2(_)
Pow2(n) == IF n = 0 THEN 1 ELSE 2 * Pow2(n - 1)

\* hardenedFetch: the loop over attempt = 1..maxRetries, on the outcomes net[attempt]
\* of the successive node-fetch requests.
RECURSIVE HardenedFetchFrom(_, _, _)
HardenedFetchFrom(net, attempt, waits) ==
    IF attempt > GEMINI_MAX_RETRIES
    THEN [kind |-> "undefined", err |-> NetOk, requests |-> attempt - 1, waits |-> waits]
    ELSE LET o == net[attempt]
         IN  IF o.ok
             THEN [kind |-> "res", err |-> NetOk, requests |-> attempt, waits |-> waits]
             ELSE IF ~IsNetworky(o) \/ attempt = GEMINI_MAX_RETRIES
                  THEN [kind |-> "throw", err |-> o, requests |-> attempt, waits |-> waits]
                  ELSE HardenedFetchFrom(net, attempt + 1,
                          Append(waits, GEMINI_BACKOFF_BASE_MS * Pow2(attempt - 1)))

HardenedFetch(net) == HardenedFetchFrom(net, 1, <<>>)

\* ------------------------------------------------------- provider answers
\* finishReason of the first candidate as the provider sends it.
ProviderFinish == {"STOP", "MAX_TOKENS", "undefined"}

\* What the provider answers once the request got through: a response with a
\* text and a finish reason, or an API error (not a network failure).
ApiThrow == [kind |-> "throw", text |-> <<>>, finishReason |-> "undefined",
             message |-> "API key not valid"]
ApiResults ==
    { [kind |-> "ok", text |-> t, finishReason |-> f, message |-> ""] :
        t \in ProviderTexts, f \in ProviderFinish } \cup {ApiThrow}

NetScripts == [1..GEMINI_MAX_RETRIES -> NetOutcomes]

\* One model.generateContent call as the environment decides it: the outcomes
\* of the fetches it makes and the provider's answer (read only when a fetch
\* got through).
CallInputs ==
    { [net |-> n, api |-> a] : n \in NetScripts, a \in ApiResults } \ 
    { c \in [net : NetScripts, api : ApiResults] :
        HardenedFetch(c.net).kind # "res" /\ c.api # ApiThrow }

\* model.generateContent over the overridden global fetch: a fetch failure
\* surfaces with the fetch error's message.
GenerateContent(call) ==
    LET f == HardenedFetch(call.net)
    IN  IF f.kind = "res"
        THEN [kind |-> call.api.kind, text |-> call.api.text,
              finishReason |-> call.api.finishReason, message |-> call.api.message,
              requests |-> f.requests]
        ELSE [kind |-> "throw", text |-> <<>>, finishReason |-> "undefined",
              message |-> f.err.message, requests |-> f.requests]

\* Variant: every caught error counts as a network failure.
BizNetworky_All(message) == TRUE

\* generateContentWithRetry's test of a caught error's message.
BizNetworky(message) ==
    MessagePatterns(message) \cap
      {"fetch failed", "ETIMEDOUT", "ENETUNREACH", "ECONNRESET", "aborted"} # {}

\* generateContentWithRetry(model, payload, tries): the loop over i = 1..tries
\* on the calls script[i]; log collects the generateContent outcomes and delays
\* the waits, in order.
RECURSIVE GenerateContentWithRetryFrom(_, _, _, _, _)
GenerateContentWithRetryFrom(script, i, tries, log, delays) ==
    IF i > tries
    THEN [kind |-> "throw", result |-> log[Len(log)], log |-> log, delays |-> delays]
    ELSE LET r    == GenerateContent(script[i])
             log2 == Append(log, r)
         IN  IF r.kind = "ok"
             THEN [kind |-> "ok", result |-> r, log |-> log2, delays |-> delays]
             ELSE IF ~BizNetworky(r.message)
                  THEN [kind |-> "throw", result |-> r, log |-> log2, delays |-> delays]
                  ELSE GenerateContentWithRetryFrom(script, i + 1, tries, log2,
                          Append(delays, BizBackoffMs * i))

GenerateContentWithRetry(script, tries) ==
    GenerateContentWithRetryFrom(script, 1, tries, <<>>, <<>>)

\* getFinishReason: finishReason || null.
GetFinishReason(result) ==
    IF result.finishReason \in {"undefined", ""} THEN "null" ELSE result.finishReason


\* ------------------------------------------------------------------ state
VARIABLES
    apiKey,           \* GEMINI_API_KEY is set
    generativeModel,  \* 0 = null, k = the handle of candidate k (activeGeminiModel with it)
    startupInit,      \* the initGemini run kicked off at load: 0 = over, k = awaiting candidate k
    lazyInit,         \* geminiInitInFlight: 0 = null, k = its initGemini run awaits candidate k
    orch              \* one getGeminiSuggestion invocation

aiVars == <<apiKey, generativeModel, startupInit, lazyInit>>

\* --------------------------------------------- getGeminiSuggestion, by step
\* The locals of one invocation, its result (text, ok, finalFinishReason,
\* attempts, model, error, notReady) and the record of what it did
\* (issued: the attempts whose generateContentWithRetry call was made, in call
\* order; callLog: the generateContent outcomes in call order; delays: its waits).
NewInv ==
    [pc |-> "new", attempts |-> <<>>, text1 |-> <<>>, reason |-> "null",
     text |-> Null, ok |-> FALSE, finalFinishReason |-> "null", model |-> 0,
     error |-> "none", notReady |-> FALSE, issued |-> <<>>, callLog |-> <<>>,
     delays |-> <<>>]

\* After `await ensureGeminiReady()` with the model handle gm: the
\* MODEL_NOT_READY return, or the first generateContentWithRetry call is issued.
InvAfterEnsure(inv, gm) ==
    IF gm = 0
    THEN [inv EXCEPT !.pc = "done", !.notReady = TRUE]
    ELSE [inv EXCEPT !.pc = "a1", !.model = gm, !.issued = <<1>>]

\* The tail of the try block: finalFinishReason, ok and the returned text.
InvFinish(inv) ==
    [inv EXCEPT !.pc = "done",
                !.finalFinishReason = inv.reason,
                !.ok = (inv.text1 # <<>>),
                !.text = IF inv.text1 # <<>> THEN inv.text1 ELSE Null]

\* Variant: no shorter-prompt attempt is ever made.
InvThirdOrFinish_Never(inv) == InvFinish(inv)

\* The third attempt is issued when the text is empty, else the tail runs.
InvThirdOrFinish(inv) ==
    IF inv.text1 = <<>>
    THEN [inv EXCEPT !.pc = "a3", !.issued = Append(inv.issued, 3)]
    ELSE InvFinish(inv)

\* Variant: a truncated (MAX_TOKENS) first answer with text is accepted as is.
InvSecondOrOn_EmptyOnly(inv) ==
    IF inv.text1 = <<>>
    THEN [inv EXCEPT !.pc = "a2", !.issued = Append(inv.issued, 2)]
    ELSE InvThirdOrFinish(inv)

\* The second attempt is issued when attempt 1 was empty or cut by the cap.
InvSecondOrOn(inv) ==
    IF inv.text1 = <<>> \/ inv.reason = "MAX_TOKENS"
    THEN [inv EXCEPT !.pc = "a2", !.issued = Append(inv.issued, 2)]
    ELSE InvThirdOrFinish(inv)

AttemptNo(pc) == CASE pc = "a1" -> 1 [] pc = "a2" -> 2 [] pc = "a3" -> 3

\* One awaited generateContentWithRetry call of the invocation resolves
\* (script: what its generateContent calls meet), and the code runs on to the
\* next await or to the return.
InvAttempt(inv, script) ==
    LET r      == GenerateContentWithRetry(script, OrchTries)
        logged == [inv EXCEPT !.callLog = inv.callLog \o r.log,
                              !.delays = inv.delays \o r.delays]
    IN  IF r.kind = "throw"
        THEN [logged EXCEPT !.pc = "done", !.error = r.result.message, !.text = Null]
        ELSE LET reason == GetFinishReason(r.result)
                 t      == Trim(r.result.text)
                 rec    == [no |-> AttemptNo(inv.pc), finishReason |-> reason,
                            hadText |-> (t # <<>>)]
                 after  == [logged EXCEPT !.attempts = Append(inv.attempts, rec),
                                          !.text1 = t, !.reason = reason]
             IN  CASE inv.pc = "a1" -> InvSecondOrOn(after)
                   [] inv.pc = "a2" -> InvThirdOrFinish(after)
                   [] inv.pc = "a3" -> InvFinish(after)

Scripts == [1..OrchTries -> CallInputs]

\* The status both callers derive from an orchestrator result.
AiStatus(inv) ==
    IF Truthy(inv.text) THEN "ok"
    ELSE IF inv.error # "none" THEN "error" ELSE "no_suggestion"

\* ------------------------------------------- initGemini / ensureGeminiReady
\* One countTokens probe of an initGemini run at candidate k resolves.
InitProbe(k, ok) ==
    [model |-> IF ok THEN k ELSE 0,
     next  |-> IF ok \/ k = NumCandidates THEN 0 ELSE k + 1]

\* ensureGeminiReady up to its first await that waits for I/O: "ready" when a
\* handle is set, "notready" when initGemini returns at once (no API key),
\* "wait" when it awaits geminiInitInFlight (started here if none is in flight).
EnsureEnter ==
    IF generativeModel # 0 THEN "ready"
    ELSE IF lazyInit = 0 /\ ~apiKey THEN "notready"
    ELSE "wait"

InvEnter(inv) ==
    CASE EnsureEnter = "ready" -> InvAfterEnsure(inv, generativeModel)
      [] EnsureEnter = "notready" -> InvAfterEnsure(inv, 0)
      [] EnsureEnter = "wait" -> [inv EXCEPT !.pc = "ensure"]

LazyInitAfterEnter ==
    IF EnsureEnter = "wait" /\ lazyInit = 0 THEN 1 ELSE lazyInit

\* An invocation awaiting geminiInitInFlight resumes when the run is over.
InvResume(inv, gm) == IF inv.pc = "ensure" THEN InvAfterEnsure(inv, gm) ELSE inv

\* ------------------------------------------------------------ server state
VARIABLES
    travellers,   \* rows of table travellers: [id, email]
    itineraries,  \* rows of table itineraries, by id
    nextId,       \* AUTO_INCREMENT of itineraries
    aiDocs,       \* collection aiSuggestions, by document id
    reqs,         \* the requests being served, by connection
    gen,          \* per created itinerary: its foreground and background generation
    nReq,         \* requests received so far
    likes,        \* documents likes/<itinerary>/userLikes/<email>
    comments,     \* documents comments/<itinerary>/items/<id>, by id
    nextCid,      \* stands for the ids Firestore gives to added comments
    cleanups,     \* deleteFirestoreData runs: per itinerary id, the recursive
                  \* deletes that have not settled
    storage,      \* the Cloud Storage client: "init", "ready" or "failed"
    bucket,       \* whether GCP_BUCKET_NAME is set
    avatars,      \* objects of the bucket, by name
    client        \* the ItineraryManager component of one browser tab

srvVars == <<travellers, itineraries, nextId, aiDocs, reqs, gen, nReq>>
socVars == <<likes, comments, nextCid, cleanups, storage, bucket, avatars>>

\* Requests received in one run of the model.
MaxRequests == 2

\* short_description may hold at most this many characters.
ShortDescMax == 80

Users == {"alice", "bob", "carol"}
Slots == {"r1", "r2"}

\* A string of n characters.
Xs(n) == [i \in 1..n |-> "x"]

\* Request bodies: the required fields present or empty, short_description
\* absent ("" stands for undefined too: both are falsy and stored as '').
Body(t, d, n) ==
    [title |-> t, destination |-> d, start_date |-> "2025-05-01",
     end_date |-> "2025-05-09", short_description |-> Xs(n), detail_description |-> ""]
Bodies ==
    { Body("A", "Rome", 0), Body("B", "Oslo", ShortDescMax),
      Body("A", "Rome", ShortDescMax + 1),
      Body("", "Rome", ShortDescMax), [Body("A", "Rome", 0) EXCEPT !.end_date = ""] }
NoBody == Body("", "", 0)

\* What express.json() makes of the request body before any route runs: 0
\* when it parses, else the status of the error it raises (400 for malformed
\* JSON; a body over the size limit, 413, is handled the same way).
JsonVerdicts == {0, 400}

\* req.body.text of a new comment, req.file's content type ("none": no file).
CommentTexts == { <<>>, <<" ">>, <<"a">>, <<" ", "a">> }
FileTypes == {"none", "image/jpeg", "image/jpg", "image/png"}

\* Authorization headers: absent, another scheme, Bearer with an empty, an
\* unverifiable or a valid token (a valid token is modelled by its email).
NoHeader == [scheme |-> "none", token |-> ""]
AuthHeaders ==
    { NoHeader, [scheme |-> "Basic", token |-> "alice"],
      [scheme |-> "Bearer", token |-> ""], [scheme |-> "Bearer", token |-> "expired"] }
    \cup { [scheme |-> "Bearer", token |-> u] : u \in Users }

\* The headers of the clients of the itinerary routes: none, or the valid
\* token of a user with a traveller row.
CrudHeaders ==
    { NoHeader } \cup { [scheme |-> "Bearer", token |-> u] : u \in {"alice", "bob"} }

\* verifyFirebaseToken: hdr.startsWith('Bearer ') ? hdr.slice(7) : null.
BearerToken(hdr) == IF hdr.scheme = "Bearer" THEN hdr.token ELSE "null"

\* admin.auth().verifyIdToken resolves with the decoded token or throws.
VerifyIdToken(token) == token \in Users

\* Variant: a token that fails verification is let through.
AuthVerdict_NoVerify(hdr) ==
    IF BearerToken(hdr) \in {"null", ""} THEN "missing" ELSE "ok"

\* The middleware's verdict on a header: "missing" and "invalid" answer 401.
AuthVerdict(hdr) ==
    IF BearerToken(hdr) \in {"null", ""} THEN "missing"
    ELSE IF ~VerifyIdToken(BearerToken(hdr)) THEN "invalid"
    ELSE "ok"

\* Variant: the length of short_description is not looked at.
BodyRejected_NoLengthCheck(b) ==
    \/ b.title = ""
    \/ b.destination = ""
    \/ b.start_date = ""
    \/ b.end_date = ""

\* The validation both POST and PUT /api/itineraries start with.
BodyRejected(b) ==
    \/ b.title = ""
    \/ b.destination = ""
    \/ b.start_date = ""
    \/ b.end_date = ""
    \/ (b.short_description # <<>> /\ Len(b.short_description) > ShortDescMax)

\* The part of a response body that depends on what the handler found (the
\* fixed message of an error response is not in it).
NoData == [kind |-> "none"]

\* One request as the server holds it: route, position, inputs, req.user.email,
\* the pending query's data, the response (status 0 = none sent yet), and what
\* it did so far (ops: store reads and writes; invs: orchestrator invocations
\* started).
IdleReq ==
    [kind |-> "none", pc |-> "idle", parse |-> 0, auth |-> NoHeader, email |-> "",
     id |-> 0, body |-> NoBody, cid |-> 0, text |-> <<>>, file |-> "none",
     tid |-> 0, status |-> 0, ai_status |-> "", suggestion |-> Null,
     ai_log_id |-> 0, liked |-> "", threw |-> FALSE, ops |-> 0, invs |-> 0,
     data |-> NoData]

\* The inputs of a route handler: params id and commentId, body, comment
\* text, uploaded file.
NoInput == [id |-> 0, cid |-> 0, body |-> NoBody, text |-> <<>>, file |-> "none"]

Respond(r, code) == [r EXCEPT !.pc = "done", !.status = code]

\* A store call of the handler threw: its catch answers 500.
Fail(r) == Respond([r EXCEPT !.threw = TRUE], 500)

\* SELECT id FROM travellers WHERE email = ?
TravellerIds(email) == { t.id : t \in {x \in travellers : x.email = email} }

\* Variant: the query does not compare the owner's email with the caller's.
OwnedRows_AnyCaller(id, email) == { i \in DOMAIN itineraries : i = id }

\* SELECT i.id FROM itineraries i JOIN travellers t ON i.traveller_id = t.id
\* WHERE i.id = ? AND t.email = ?
OwnedRows(id, email) ==
    { i \in DOMAIN itineraries :
        i = id /\ \E t \in travellers :
                     t.id = itineraries[i].traveller_id /\ t.email = email }

\* The email of the traveller owning itinerary id.
OwnerEmails(id) ==
    { t.email : t \in {x \in travellers : x.id = itineraries[id].traveller_id} }

\* The row INSERT / UPDATE stores for a body.
RowOf(tid, b) ==
    [traveller_id |-> tid, title |-> b.title, destination |-> b.destination,
     start_date |-> b.start_date, end_date |-> b.end_date,
     short_description |-> b.short_description,
     detail_description |-> b.detail_description]

\* f with key k set to v (k may be new).
Put(f, k, v) == [x \in DOMAIN f \cup {k} |-> IF x = k THEN v ELSE f[x]]
\* f without key k.
Drop(f, k) == [x \in DOMAIN f \ {k} |-> f[x]]

\* ------------------------------------------------- POST /api/itineraries
\* The aiSuggestions document both paths write for an orchestrator result
\* (by: which path wrote it).
AiDoc(inv, status, by) ==
    [status |-> status, suggestion |-> inv.text, finishReason |-> inv.finalFinishReason,
     attempts |-> inv.attempts, model |-> inv.model, by |-> by]

\* The generation state of one created itinerary: the foreground invocation,
\* whether the soft timer won the race, the background invocation and the
\* position of the background task ("none": not started, "run", "write":
\* awaiting docRef.set, "done", "failed": the write threw).
\* writes: the docRef.set calls on aiSuggestions/<id> that settled so far, in
\* order, each with the path that made it and whether it resolved.
NewGen(fg) ==
    [fg |-> fg, soft |-> FALSE, bg |-> NewInv, bgSt |-> "none", writes |-> <<>>]

\* A docRef.set of path by settled.
Logged(c, by, ok) == [c EXCEPT !.writes = Append(@, [by |-> by, ok |-> ok])]

\* The foreground result arrived before the timer: suggestion and ai_status
\* are set and docRef.set is awaited.
FgResolved(r, fg) ==
    [r EXCEPT !.suggestion = IF Truthy(fg.text) THEN fg.text ELSE Null,
              !.ai_status = AiStatus(fg),
              !.pc = "fgwrite"]

\* Variant: the handler also picks up a foreground result that arrives after
\* the soft timer fired.
SettleReq_Late(r, g) ==
    IF /\ r.kind = "create" /\ r.id \in DOMAIN g
       /\ \/ r.pc = "race"
          \/ r.pc = "done" /\ g[r.id].soft /\ r.ai_status = "queued"
       /\ g[r.id].fg.pc = "done"
    THEN FgResolved(r, g[r.id].fg)
    ELSE r

\* The handler awaiting the race resumes once its foreground invocation is over.
SettleReq(r, g) ==
    IF r.kind = "create" /\ r.pc = "race" /\ g[r.id].fg.pc = "done"
    THEN FgResolved(r, g[r.id].fg)
    ELSE r

\* Variant: the background task ends without writing its result.
SettleBg_NoWrite(c) ==
    IF c.bgSt = "run" /\ c.bg.pc = "done" THEN [c EXCEPT !.bgSt = "done"] ELSE c

\* The background task goes on to its docRef.set once its invocation is over.
SettleBg(c) ==
    IF c.bgSt = "run" /\ c.bg.pc = "done" THEN [c EXCEPT !.bgSt = "write"] ELSE c

\* Variant: the background task is started after every creation.
BackgroundWanted_Always(suggestion, ai_status) == TRUE

\* The condition under which the background task is started.
BackgroundWanted(suggestion, ai_status) ==
    \/ ~Truthy(suggestion)
    \/ ai_status = "no_suggestion"
    \/ ai_status = "queued"
    \/ ai_status = "error"

\* The background task started (its getGeminiSuggestion call entered).
WithBackground(c) ==
    SettleBg([c EXCEPT !.bg = InvEnter(NewInv), !.bgSt = "run"])

\* ------------------------------------------------------ diagnostics, reads
\* The first characters of the ping answer the diagnostics route shows.
SampleMax == 60

\* No error field in a body.
NoSummary == [message |-> ""]

\* The body of GET /api/diagnostics/ai.
DiagData(ok, reason, error, text) ==
    [kind |-> "diag", ok |-> ok, reason |-> reason, error |-> error,
     sample |-> SubSeq(text, 1, IF Len(text) < SampleMax THEN Len(text) ELSE SampleMax)]

\* GET /api/diagnostics/ai after `await ensureGeminiReady()` with handle gm:
\* MODEL_NOT_READY, or the ping is sent.
DiagAfterEnsure(r, gm) ==
    IF gm = 0
    THEN Respond([r EXCEPT !.data = DiagData(FALSE, "MODEL_NOT_READY", NoSummary, <<>>)], 200)
    ELSE [r EXCEPT !.pc = "ping"]

\* A diagnostics request awaiting geminiInitInFlight resumes when the run is over.
DiagResume(r, gm) ==
    IF r.kind = "diag" /\ r.pc = "ensure" THEN DiagAfterEnsure(r, gm) ELSE r

\* ------------------------------------------------------------------ client
\* startAiPolling's default maxTries.
MaxTries == 8

\* The ItineraryManager component after setup, mounted for a signed-in
\* traveller: selectedItinerary (0 for null), aiStatus, aiPollTimer (0 for
\* null), isEditing. views: the viewDetails calls made; runs: the
\* startAiPolling calls made (a run's interval timer is named by the run's
\* number); live: the interval timers set and not cleared; calls: the
\* deleteItinerary and saveEdit calls made; lists: the fetchItineraries calls
\* awaited. A request the component awaits is first sent, then answered by the
\* server, then delivered to the component. The immediate watch of
\* travellerEmail has called fetchItineraries during setup: its list request
\* is sent.
NewClient ==
    [selected |-> 0, aiStatus |-> "idle", aiPollTimer |-> 0, live |-> {},
     isEditing |-> FALSE, views |-> <<>>, runs |-> <<>>, calls |-> <<>>,
     lists |-> [sent |-> 1, got |-> EmptyBag]]

\* -------------------------------------------------------------- requests
ValidHeaders == { [scheme |-> "Bearer", token |-> u] : u \in Users }
\* The ids a request names: the first row or document and the next one.
TargetIds == {1, 2}
CommentIds == {1, 2}
AttemptPcs == {"a1", "a2", "a3"}

\* The created itineraries whose AI tasks (foreground invocation, background
\* task) are not all over.
Running ==
    { id \in DOMAIN gen :
        gen[id].fg.pc # "done" \/ gen[id].bgSt \in {"run", "write"} }

\* The generation state still referenced when connection s takes a new
\* request: running tasks and the creations other connections show.
Kept(s) ==
    Running \cup { reqs[t].id : t \in { u \in Slots \ {s} : reqs[u].kind = "create" } }

\* express.json() passes the error it raised to Express, which answers with
\* the error's status; no route middleware runs.
JsonRejected(parse) == parse # 0

\* A request as it stands once express.json and the synchronous part of the
\* auth middleware have run on it.
Arrived(kind, hdr, parse) ==
    LET r == [IdleReq EXCEPT !.kind = kind, !.auth = hdr, !.parse = parse]
    IN  IF JsonRejected(parse) THEN Respond(r, parse)
        ELSE IF AuthVerdict(hdr) = "missing" THEN Respond(r, 401)
        ELSE [r EXCEPT !.pc = "verify"]

\* A request arrives on a free connection; express.json() runs, then
\* verifyFirebaseToken up to its await: 401 at once without a Bearer token,
\* else verifyIdToken is awaited.
Arrive(s, kinds, hdrs, max) ==
    /\ reqs[s].pc \in {"idle", "done"}
    /\ nReq < max
    /\ \E kind \in kinds, hdr \in hdrs, parse \in JsonVerdicts :
         reqs' = [reqs EXCEPT ![s] = Arrived(kind, hdr, parse)]
    /\ nReq' = nReq + 1
    /\ gen' = [id \in DOMAIN gen \cap Kept(s) |-> gen[id]]
    /\ UNCHANGED <<client, travellers, itineraries, nextId, aiDocs, aiVars, orch, socVars>>

\* The inputs a request of a kind can carry.
Inputs(kind, bodies) ==
    CASE kind = "create" -> { [NoInput EXCEPT !.body = b] : b \in bodies }
      [] kind = "put" ->
            { [NoInput EXCEPT !.body = b, !.id = i] : b \in bodies, i \in TargetIds }
      [] kind \in {"delete", "like"} -> { [NoInput EXCEPT !.id = i] : i \in TargetIds }
      [] kind = "comment" ->
            { [NoInput EXCEPT !.id = i, !.text = t] : i \in TargetIds, t \in CommentTexts }
      [] kind = "uncomment" ->
            { [NoInput EXCEPT !.id = i, !.cid = c] : i \in TargetIds, c \in CommentIds }
      [] kind = "upload" ->
            { [NoInput EXCEPT !.file = f, !.body = b] : f \in FileTypes, b \in bodies }
      [] OTHER -> { NoInput }

\* POST /api/upload-avatar from the moment multer calls the handler (req.file
\* is set or left undefined) up to its first await. req.user.email is set:
\* every verified token here carries an email claim, so the handler's 400 for
\* a missing email is never taken.
UploadEntry(r) ==
    IF storage # "ready" THEN Respond(r, 503)
    ELSE IF r.file = "none" THEN Respond(r, 400)
    ELSE IF ~bucket THEN Respond(r, 500)
    ELSE IF r.file \notin {"image/jpeg", "image/jpg"} THEN Respond(r, 400)
    ELSE [r EXCEPT !.pc = "save"]

\* The route handler up to its first await, for the inputs in.
HandlerEntry(r0, in) ==
    LET r == [r0 EXCEPT !.id = in.id, !.cid = in.cid, !.body = in.body,
                        !.text = Trim(in.text), !.file = in.file]
    IN  CASE r.kind \in {"create", "put"} ->
                IF BodyRejected(r.body) THEN Respond(r, 400)
                ELSE [r EXCEPT !.pc = IF r.kind = "create" THEN "lookup" ELSE "check"]
          [] r.kind = "delete" -> [r EXCEPT !.pc = "check"]
          [] r.kind = "like" -> [r EXCEPT !.pc = "get"]
          [] r.kind = "comment" ->
                IF r.text = <<>> THEN Respond(r, 400) ELSE [r EXCEPT !.pc = "add"]
          [] r.kind = "uncomment" -> [r EXCEPT !.pc = "get"]
          [] r.kind = "ensure" -> [r EXCEPT !.pc = "select"]
          [] r.kind = "upload" -> UploadEntry(r)

\* verifyIdToken resolves: 401 when it throws, else req.user is set and
\* next() runs what follows the auth middleware up to its first await: the
\* route handler up to its first query, or, for an upload,
\* uploadMulter.single('avatar'), which calls the handler at once when the
\* request is not multipart (req.file stays undefined) and otherwise reads
\* the form from the request stream first.
Verified(s, bodies) ==
    /\ reqs[s].pc = "verify"
    /\ LET r == reqs[s]
           u == [r EXCEPT !.email = BearerToken(r.auth)]
       IN  IF AuthVerdict(r.auth) # "ok"
           THEN reqs' = [reqs EXCEPT ![s] = Respond(r, 401)]
           ELSE IF r.kind = "upload"
           THEN \/ reqs' = [reqs EXCEPT ![s] = [u EXCEPT !.pc = "multer"]]
                \/ \E b \in bodies :
                      reqs' = [reqs EXCEPT ![s] =
                                 HandlerEntry(u, [NoInput EXCEPT !.body = b])]
           ELSE \E in \in Inputs(r.kind, bodies) :
                  reqs' = [reqs EXCEPT ![s] = HandlerEntry(u, in)]
    /\ UNCHANGED <<client, travellers, itineraries, nextId, aiDocs, gen, nReq, aiVars, orch, socVars>>

\* upload-avatar: multer has read the multipart form (req.file is the part
\* named avatar, req.body the text fields) and calls the handler, which runs
\* up to gcFile.save on the storage client and bucket name of this moment.
UploadMulter(s, bodies) ==
    /\ reqs[s].kind = "upload" /\ reqs[s].pc = "multer"
    /\ \E in \in Inputs("upload", bodies) :
         reqs' = [reqs EXCEPT ![s] = HandlerEntry(reqs[s], in)]
    /\ UNCHANGED <<client, travellers, itineraries, nextId, aiDocs, gen, nReq, aiVars, orch, socVars>>

\* POST: the traveller lookup resolves (404 without a row) or throws (500).
CreateLookup(s) ==
    /\ reqs[s].kind = "create" /\ reqs[s].pc = "lookup"
    /\ \E ok \in BOOLEAN :
         LET r   == [reqs[s] EXCEPT !.ops = @ + 1]
             ids == TravellerIds(r.email)
         IN  reqs' = [reqs EXCEPT ![s] =
                        IF ~ok THEN Fail(r)
                        ELSE IF ids = {} THEN Respond(r, 404)
                        ELSE [r EXCEPT !.tid = CHOOSE t \in ids : TRUE, !.pc = "insert"]]
    /\ UNCHANGED <<client, travellers, itineraries, nextId, aiDocs, gen, nReq, aiVars, orch, socVars>>

\* POST: the INSERT throws (500), or resolves: the foreground
\* getGeminiSuggestion call is entered and raced against the soft timer.
CreateInsert(s) ==
    /\ reqs[s].kind = "create" /\ reqs[s].pc = "insert"
    /\ \/ /\ reqs' = [reqs EXCEPT ![s] = Fail([@ EXCEPT !.ops = @ + 1])]
          /\ UNCHANGED <<client, itineraries, nextId, gen, lazyInit>>
       \/ LET id == nextId
              r  == [reqs[s] EXCEPT !.ops = @ + 1, !.id = id, !.ai_status = "queued",
                                    !.invs = 1, !.pc = "race"]
              g2 == Put(gen, id, NewGen(InvEnter(NewInv)))
          IN  /\ itineraries' = Put(itineraries, id, RowOf(r.tid, r.body))
              /\ nextId' = nextId + 1
              /\ gen' = g2
              /\ reqs' = [reqs EXCEPT ![s] = SettleReq(r, g2)]
              /\ lazyInit' = LazyInitAfterEnter
    /\ UNCHANGED <<client, travellers, aiDocs, nReq, apiKey, generativeModel, startupInit, orch, socVars>>

\* One awaited provider call of a foreground invocation resolves (the
\* invocation may have been left behind by the soft timer).
FgAttempt(id, scripts) ==
    /\ id \in DOMAIN gen
    /\ gen[id].fg.pc \in AttemptPcs
    /\ \E script \in scripts :
         LET g2 == [gen EXCEPT ![id].fg = InvAttempt(@, script)]
         IN  /\ gen' = g2
             /\ reqs' = [s \in Slots |-> SettleReq(reqs[s], g2)]
    /\ UNCHANGED <<client, travellers, itineraries, nextId, aiDocs, nReq, aiVars, orch, socVars>>

\* Variant: a timed-out foreground path is reported as an error.
SoftReply_Error(r) == Respond([r EXCEPT !.invs = @ + 1, !.ai_status = "error"], 201)

\* What the handler answers when the timer won: suggestion, ai_status and
\* ai_log_id as initialised (null, queued, null), the background task counted.
SoftReply(r) == Respond([r EXCEPT !.invs = @ + 1], 201)

\* The soft timer fires first: the background task is started and the
\* response goes out with ai_status queued.
SoftTimeout(s) ==
    /\ reqs[s].kind = "create" /\ reqs[s].pc = "race"
    /\ LET r == reqs[s]
       IN  /\ gen' = [gen EXCEPT ![r.id] = WithBackground([@ EXCEPT !.soft = TRUE])]
           /\ reqs' = [reqs EXCEPT ![s] = SoftReply(r)]
    /\ lazyInit' = LazyInitAfterEnter
    /\ UNCHANGED <<client, travellers, itineraries, nextId, aiDocs, nReq, apiKey,
                   generativeModel, startupInit, orch, socVars>>

\* Variant: a failed docRef.set reaches the outer catch, which answers 500.
FgWriteReply_Propagate(r, ok) ==
    IF ok
    THEN LET want == BackgroundWanted(r.suggestion, r.ai_status)
         IN  Respond([r EXCEPT !.ai_log_id = r.id,
                               !.invs = IF want THEN @ + 1 ELSE @], 201)
    ELSE Respond(r, 500)

\* What the handler answers once the foreground docRef.set resolved (ok) or
\* threw: ai_log_id on success, ai_status error on failure (the inner catch),
\* the background task counted if it is started, and 201 either way.
FgWriteReply(r, ok) ==
    LET r1   == IF ok THEN [r EXCEPT !.ai_log_id = r.id]
                ELSE [r EXCEPT !.ai_status = "error"]
        want == BackgroundWanted(r1.suggestion, r1.ai_status)
    IN  Respond([r1 EXCEPT !.invs = IF want THEN @ + 1 ELSE @], 201)

\* The foreground docRef.set resolves or throws; then the background task is
\* started if wanted and the response goes out.
FgWrite(s) ==
    /\ reqs[s].kind = "create" /\ reqs[s].pc = "fgwrite"
    /\ \E ok \in BOOLEAN :
         LET r     == [reqs[s] EXCEPT !.ops = @ + 1]
             reply == FgWriteReply(r, ok)
             want  == reply.invs > r.invs
         IN  /\ aiDocs' = IF ok
                          THEN Put(aiDocs, r.id, AiDoc(gen[r.id].fg, r.ai_status, "fg"))
                          ELSE aiDocs
             /\ gen' = [gen EXCEPT ![r.id] =
                          IF want THEN WithBackground(Logged(@, "fg", ok))
                          ELSE Logged(@, "fg", ok)]
             /\ lazyInit' = IF want THEN LazyInitAfterEnter ELSE lazyInit
             /\ reqs' = [reqs EXCEPT ![s] = reply]
    /\ UNCHANGED <<client, travellers, itineraries, nextId, nReq, apiKey, generativeModel,
                   startupInit, orch, socVars>>

\* One awaited provider call of a background invocation resolves.
BgAttempt(id, scripts) ==
    /\ id \in DOMAIN gen
    /\ gen[id].bgSt = "run" /\ gen[id].bg.pc \in AttemptPcs
    /\ \E script \in scripts :
         gen' = [gen EXCEPT ![id] = SettleBg([@ EXCEPT !.bg = InvAttempt(@, script)])]
    /\ UNCHANGED <<client, travellers, itineraries, nextId, aiDocs, reqs, nReq, aiVars, orch, socVars>>

\* Variant: the background task calls docRef.set again when it threw.
BgWritten_Retry(c, ok) ==
    IF ok THEN [Logged(c, "bg", ok) EXCEPT !.bgSt = "done"] ELSE Logged(c, "bg", ok)

\* The background task after its docRef.set settled: over either way (the
\* catch only logs).
BgWritten(c, ok) ==
    [Logged(c, "bg", ok) EXCEPT !.bgSt = IF ok THEN "done" ELSE "failed"]

\* The background docRef.set resolves or throws (the throw is only logged).
BgWrite(id) ==
    /\ id \in DOMAIN gen
    /\ gen[id].bgSt = "write"
    /\ \E ok \in BOOLEAN :
         /\ aiDocs' = IF ok
                      THEN Put(aiDocs, id, AiDoc(gen[id].bg, AiStatus(gen[id].bg), "bg"))
                      ELSE aiDocs
         /\ gen' = [gen EXCEPT ![id] = BgWritten(@, ok)]
    /\ UNCHANGED <<client, travellers, itineraries, nextId, reqs, nReq, aiVars, orch, socVars>>

\* ------------------------------------- PUT and DELETE /api/itineraries/:id
\* The ownership query resolves: 403 when it finds no row, else the write is
\* issued.
OwnerCheck(r, ok) ==
    IF ~ok THEN Fail(r)
    ELSE IF OwnedRows(r.id, r.email) = {} THEN Respond(r, 403)
    ELSE [r EXCEPT !.pc = "write"]

PutCheck(s) ==
    /\ reqs[s].kind = "put" /\ reqs[s].pc = "check"
    /\ \E ok \in BOOLEAN :
         reqs' = [reqs EXCEPT ![s] = OwnerCheck([@ EXCEPT !.ops = @ + 1], ok)]
    /\ UNCHANGED <<client, travellers, itineraries, nextId, aiDocs, gen, nReq, aiVars, orch, socVars>>

\* The UPDATE resolves (404 when it matched no row) or throws (500).
PutWrite(s) ==
    /\ reqs[s].kind = "put" /\ reqs[s].pc = "write"
    /\ \E ok \in BOOLEAN :
         LET r == [reqs[s] EXCEPT !.ops = @ + 1]
         IN  IF ok /\ r.id \in DOMAIN itineraries
             THEN /\ itineraries' =
                        [itineraries EXCEPT ![r.id] = RowOf(@.traveller_id, r.body)]
                  /\ reqs' = [reqs EXCEPT ![s] = Respond(r, 200)]
             ELSE /\ itineraries' = itineraries
                  /\ reqs' = [reqs EXCEPT ![s] = (IF ok THEN Respond(r, 404) ELSE Fail(r))]
    /\ UNCHANGED <<client, travellers, nextId, aiDocs, gen, nReq, aiVars, orch, socVars>>

DeleteCheck(s) ==
    /\ reqs[s].kind = "delete" /\ reqs[s].pc = "check"
    /\ \E ok \in BOOLEAN :
         reqs' = [reqs EXCEPT ![s] = OwnerCheck([@ EXCEPT !.ops = @ + 1], ok)]
    /\ UNCHANGED <<client, travellers, itineraries, nextId, aiDocs, gen, nReq, aiVars, orch, socVars>>

\* deleteFirestoreData(id) up to its await: both recursive deletes started.
NewCleanup == {"likes", "comments"}

\* The DELETE resolves (404 when it matched no row; else the cleanup is
\* started and 200 answered) or throws (500).
DeleteWrite(s) ==
    /\ reqs[s].kind = "delete" /\ reqs[s].pc = "write"
    /\ \E ok \in BOOLEAN :
         LET r == [reqs[s] EXCEPT !.ops = @ + 1]
         IN  IF ok /\ r.id \in DOMAIN itineraries
             THEN /\ itineraries' = Drop(itineraries, r.id)
                  /\ cleanups' = Put(cleanups, r.id, NewCleanup)
                  /\ reqs' = [reqs EXCEPT ![s] = Respond(r, 200)]
             ELSE /\ UNCHANGED <<client, itineraries, cleanups>>
                  /\ reqs' = [reqs EXCEPT ![s] = (IF ok THEN Respond(r, 404) ELSE Fail(r))]
    /\ UNCHANGED <<client, travellers, nextId, aiDocs, gen, nReq, aiVars, orch,
                   likes, comments, nextCid, storage, bucket, avatars>>

\* ------------------------------------------------------ model initialisation
\* A countTokens probe of the start-up initGemini run resolves.
InitStartupStep ==
    /\ startupInit # 0
    /\ \E ok \in BOOLEAN :
         LET p == InitProbe(startupInit, ok)
         IN  /\ startupInit' = p.next
             /\ generativeModel' = IF ok THEN p.model ELSE generativeModel
    /\ UNCHANGED <<client, apiKey, lazyInit, orch, srvVars, socVars>>

\* A countTokens probe of the run behind geminiInitInFlight resolves; when the
\* run is over, every ensureGeminiReady caller awaiting it resumes.
InitLazyStep ==
    /\ lazyInit # 0
    /\ \E ok \in BOOLEAN :
         LET p  == InitProbe(lazyInit, ok)
             gm == IF ok THEN p.model ELSE generativeModel
             g2 == [i \in DOMAIN gen |->
                      SettleBg([gen[i] EXCEPT !.fg = InvResume(@, gm),
                                              !.bg = InvResume(@, gm)])]
         IN  /\ lazyInit' = p.next
             /\ generativeModel' = gm
             /\ orch' = IF p.next = 0 THEN InvResume(orch, gm) ELSE orch
             /\ gen' = IF p.next = 0 THEN g2 ELSE gen
             /\ reqs' = IF p.next = 0
                        THEN [s \in Slots |-> SettleReq(DiagResume(reqs[s], gm), g2)]
                        ELSE reqs
    /\ UNCHANGED <<client, apiKey, startupInit, travellers, itineraries, nextId, aiDocs, nReq,
                   socVars>>

\* ------------------------------------------- one orchestrator invocation
OrchStart ==
    /\ orch.pc = "new"
    /\ orch' = InvEnter(orch)
    /\ lazyInit' = LazyInitAfterEnter
    /\ UNCHANGED <<client, apiKey, generativeModel, startupInit, srvVars, socVars>>

OrchAttempt ==
    /\ orch.pc \in AttemptPcs
    /\ \E script \in Scripts : orch' = InvAttempt(orch, script)
    /\ UNCHANGED <<client, aiVars, srvVars, socVars>>

\* --------------------------------------------------------- specifications
vars == <<apiKey, generativeModel, startupInit, lazyInit, orch, travellers,
          itineraries, nextId, aiDocs, reqs, gen, nReq, likes, comments, nextCid,
          cleanups, storage, bucket, avatars, client>>

InitAi ==
    /\ generativeModel = 0
    /\ startupInit = IF apiKey THEN 1 ELSE 0
    /\ lazyInit = 0

InitSrv ==
    /\ travellers = { [id |-> 1, email |-> "alice"], [id |-> 2, email |-> "bob"] }
    /\ itineraries = [i \in {1} |-> RowOf(1, Body("A", "Rome", 0))]
    /\ nextId = 2
    /\ aiDocs = <<>>
    /\ reqs = [s \in Slots |-> IdleReq]
    /\ gen = <<>>
    /\ nReq = 0
    /\ likes = {}
    /\ comments = <<>>
    /\ nextCid = 1
    /\ cleanups = <<>>
    /\ storage = "init"
    /\ avatars = {}
    /\ client = NewClient

\* One getGeminiSuggestion invocation against every provider behaviour, with
\* and without an API key, from process start.
InitOrch ==
    /\ apiKey \in BOOLEAN
    /\ InitAi
    /\ orch = NewInv
    /\ InitSrv
    /\ bucket = TRUE

NextOrch == OrchStart \/ InitStartupStep \/ InitLazyStep \/ OrchAttempt

SpecOrch == InitOrch /\ [][NextOrch]_vars


\* ------------------------------------------------- likes, comments, avatars
\* initGcs, started at process start, sets the storage client or throws.
InitGcsStep ==
    /\ storage = "init"
    /\ storage' \in {"ready", "failed"}
    /\ UNCHANGED <<client, aiVars, orch, srvVars, likes, comments, nextCid, cleanups, bucket,
                   avatars>>

Like(id, email) == [itinerary |-> id, email |-> email]

\* Like toggle: the branch taken on snap.exists.
LikeBranch(L, l) == IF l \in L THEN "unset" ELSE "set"

\* Variant: the delete branch leaves the like document in place.
LikeApply_KeepOnUnset(L, l, branch) == L \cup {l}

\* Like toggle: the like documents after likeDocRef.set (branch "set") or
\* likeDocRef.delete (branch "unset") resolved.
LikeApply(L, l, branch) == IF branch = "set" THEN L \cup {l} ELSE L \ {l}

\* Like toggle: the liked field of the response.
LikeReport(branch) == IF branch = "set" THEN "true" ELSE "false"

\* One like toggle running alone on the like documents L: the documents it
\* leaves and the liked field it answers.
Toggle(L, l) ==
    LET branch == LikeBranch(L, l)
    IN  [likes |-> LikeApply(L, l, branch), liked |-> LikeReport(branch)]

\* Like toggle: likeDocRef.get() resolves or throws.
LikeGet(s) ==
    /\ reqs[s].kind = "like" /\ reqs[s].pc = "get"
    /\ \E ok \in BOOLEAN :
         LET r == [reqs[s] EXCEPT !.ops = @ + 1]
         IN  reqs' = [reqs EXCEPT ![s] =
                        IF ~ok THEN Fail(r)
                        ELSE [r EXCEPT !.pc = LikeBranch(likes, Like(r.id, r.email))]]
    /\ UNCHANGED <<client, travellers, itineraries, nextId, aiDocs, gen, nReq, aiVars, orch,
                   socVars>>

\* Like toggle: the delete or set of the like document resolves or throws.
LikeWrite(s) ==
    /\ reqs[s].kind = "like" /\ reqs[s].pc \in {"set", "unset"}
    /\ \E ok \in BOOLEAN :
         LET r == [reqs[s] EXCEPT !.ops = @ + 1]
             l == Like(r.id, r.email)
         IN  IF ok
             THEN /\ likes' = LikeApply(likes, l, r.pc)
                  /\ reqs' = [reqs EXCEPT ![s] =
                                Respond([r EXCEPT !.liked = LikeReport(r.pc)], 200)]
             ELSE /\ likes' = likes
                  /\ reqs' = [reqs EXCEPT ![s] = Fail(r)]
    /\ UNCHANGED <<client, travellers, itineraries, nextId, aiDocs, gen, nReq, aiVars, orch,
                   comments, nextCid, cleanups, storage, bucket, avatars>>

\* Add comment: the add resolves (201) or throws (500).
CommentAdd(s) ==
    /\ reqs[s].kind = "comment" /\ reqs[s].pc = "add"
    /\ \E ok \in BOOLEAN :
         LET r == [reqs[s] EXCEPT !.ops = @ + 1]
         IN  IF ok
             THEN /\ comments' = Put(comments, nextCid,
                                     [itinerary |-> r.id, email |-> r.email, text |-> r.text])
                  /\ nextCid' = nextCid + 1
                  /\ reqs' = [reqs EXCEPT ![s] = Respond([r EXCEPT !.cid = nextCid], 201)]
             ELSE /\ UNCHANGED <<client, comments, nextCid>>
                  /\ reqs' = [reqs EXCEPT ![s] = Fail(r)]
    /\ UNCHANGED <<client, travellers, itineraries, nextId, aiDocs, gen, nReq, aiVars, orch,
                   likes, cleanups, storage, bucket, avatars>>

\* The comment documents at comments/<id>/items/<cid>.
CommentAt(id, cid) ==
    { c \in DOMAIN comments : c = cid /\ comments[c].itinerary = id }

\* Variant: the author of the comment is not compared with the caller.
CommentVerdict_AnyCaller(r) ==
    IF CommentAt(r.id, r.cid) = {} THEN Respond(r, 404)
    ELSE [r EXCEPT !.pc = "delete"]

\* Delete comment once commentRef.get() resolved: 404 without a document, 403
\* for another author's comment, else commentRef.delete() is called.
CommentVerdict(r) ==
    IF CommentAt(r.id, r.cid) = {} THEN Respond(r, 404)
    ELSE IF comments[r.cid].email # r.email THEN Respond(r, 403)
    ELSE [r EXCEPT !.pc = "delete"]

\* Delete comment: commentRef.get() resolves (404 without a document, 403 for
\* another author's comment) or throws (500).
CommentGet(s) ==
    /\ reqs[s].kind = "uncomment" /\ reqs[s].pc = "get"
    /\ \E ok \in BOOLEAN :
         LET r == [reqs[s] EXCEPT !.ops = @ + 1]
         IN  reqs' = [reqs EXCEPT ![s] =
                        IF ~ok THEN Fail(r) ELSE CommentVerdict(r)]
    /\ UNCHANGED <<client, travellers, itineraries, nextId, aiDocs, gen, nReq, aiVars, orch,
                   socVars>>

\* Delete comment: commentRef.delete() resolves (200) or throws (500).
CommentDelete(s) ==
    /\ reqs[s].kind = "uncomment" /\ reqs[s].pc = "delete"
    /\ \E ok \in BOOLEAN :
         LET r == [reqs[s] EXCEPT !.ops = @ + 1]
         IN  /\ comments' = IF ok /\ CommentAt(r.id, r.cid) # {}
                            THEN Drop(comments, r.cid) ELSE comments
             /\ reqs' = [reqs EXCEPT ![s] = (IF ok THEN Respond(r, 200) ELSE Fail(r))]
    /\ UNCHANGED <<client, travellers, itineraries, nextId, aiDocs, gen, nReq, aiVars, orch,
                   likes, nextCid, cleanups, storage, bucket, avatars>>

\* travellers/ensure: the SELECT resolves (200 when the row exists) or throws.
EnsureSelect(s) ==
    /\ reqs[s].kind = "ensure" /\ reqs[s].pc = "select"
    /\ \E ok \in BOOLEAN :
         LET r == [reqs[s] EXCEPT !.ops = @ + 1]
         IN  reqs' = [reqs EXCEPT ![s] =
                        IF ~ok THEN Fail(r)
                        ELSE IF TravellerIds(r.email) # {} THEN Respond(r, 200)
                        ELSE [r EXCEPT !.pc = "insert"]]
    /\ UNCHANGED <<client, travellers, itineraries, nextId, aiDocs, gen, nReq, aiVars, orch,
                   socVars>>

\* travellers/ensure: the INSERT resolves (201) or throws (500). The table's
\* definition is not part of the repository: when a row with the email is there
\* by now, the INSERT throws if email carries a unique index, and adds a
\* second row if it does not.
EnsureInsert(s) ==
    /\ reqs[s].kind = "ensure" /\ reqs[s].pc = "insert"
    /\ \E ok \in BOOLEAN, unique \in BOOLEAN :
         LET r   == [reqs[s] EXCEPT !.ops = @ + 1]
             tid == Cardinality(travellers) + 1
         IN  IF ok /\ (TravellerIds(r.email) = {} \/ ~unique)
             THEN /\ travellers' = travellers \cup { [id |-> tid, email |-> r.email] }
                  /\ reqs' = [reqs EXCEPT ![s] = Respond([r EXCEPT !.tid = tid], 201)]
             ELSE /\ travellers' = travellers
                  /\ reqs' = [reqs EXCEPT ![s] = Fail(r)]
    /\ UNCHANGED <<client, itineraries, nextId, aiDocs, gen, nReq, aiVars, orch, socVars>>

\* Variant: the object is named after a text field of the multipart body.
AvatarName_FromBody(r) == <<"avatar", r.body.title, "jpg">>

\* The object an upload writes: avatar/<req.user.email>.jpg (req.body holds the
\* text fields of the multipart form; none is read).
AvatarName(r) == <<"avatar", r.email, "jpg">>

\* upload-avatar: gcFile.save resolves or throws (500).
UploadSave(s) ==
    /\ reqs[s].kind = "upload" /\ reqs[s].pc = "save"
    /\ \E ok \in BOOLEAN :
         LET r == [reqs[s] EXCEPT !.ops = @ + 1]
         IN  /\ avatars' = IF ok THEN avatars \cup { AvatarName(r) } ELSE avatars
             /\ reqs' = [reqs EXCEPT ![s] =
                           IF ok THEN [r EXCEPT !.pc = "public"] ELSE Fail(r)]
    /\ UNCHANGED <<client, travellers, itineraries, nextId, aiDocs, gen, nReq, aiVars, orch,
                   likes, comments, nextCid, cleanups, storage, bucket>>

\* upload-avatar: makePublic settles (a rejection is swallowed), 200 answered.
UploadPublic(s) ==
    /\ reqs[s].kind = "upload" /\ reqs[s].pc = "public"
    /\ reqs' = [reqs EXCEPT ![s] = Respond([@ EXCEPT !.ops = @ + 1], 200)]
    /\ UNCHANGED <<client, travellers, itineraries, nextId, aiDocs, gen, nReq, aiVars, orch,
                   socVars>>

\* One recursive delete of the cleanup of itinerary id settled; the run is
\* over (its catch only logs) when both have.
Settled(id, col) ==
    IF cleanups[id] = {col} THEN Drop(cleanups, id)
    ELSE [cleanups EXCEPT ![id] = @ \ {col}]

\* deleteFirestoreData: the recursive delete of likes/<id> settles.
CleanupLikes(id) ==
    /\ "likes" \in cleanups[id]
    /\ \E ok \in BOOLEAN :
         likes' = IF ok THEN { l \in likes : l.itinerary # id } ELSE likes
    /\ cleanups' = Settled(id, "likes")
    /\ UNCHANGED <<client, aiVars, orch, srvVars, comments, nextCid, storage, bucket, avatars>>

\* deleteFirestoreData: the recursive delete of comments/<id> settles.
CleanupComments(id) ==
    /\ "comments" \in cleanups[id]
    /\ \E ok \in BOOLEAN :
         comments' = IF ok
                     THEN [c \in { d \in DOMAIN comments : comments[d].itinerary # id }
                             |-> comments[c]]
                     ELSE comments
    /\ cleanups' = Settled(id, "comments")
    /\ UNCHANGED <<client, aiVars, orch, srvVars, likes, nextCid, storage, bucket, avatars>>

\* ------------------------------------------------------------ public routes
\* The ids a public read names.
PublicInputs(kind) ==
    IF kind \in {"detail", "airead", "likecount"}
    THEN { [NoInput EXCEPT !.id = i] : i \in TargetIds }
    ELSE { NoInput }

\* GET /api/diagnostics/ai up to its first await that waits for I/O.
DiagEntry(r) ==
    IF ~apiKey
    THEN Respond([r EXCEPT !.data = DiagData(FALSE, "NO_API_KEY", NoSummary, <<>>)], 200)
    ELSE IF EnsureEnter = "wait" THEN [r EXCEPT !.pc = "ensure"]
    ELSE DiagAfterEnsure(r, generativeModel)

\* A public route handler up to its first await.
PublicEntry(r0, in) ==
    LET r == [r0 EXCEPT !.id = in.id]
    IN  CASE r.kind \in {"detail", "healthdb"} -> [r EXCEPT !.pc = "query"]
          [] r.kind \in {"airead", "likecount"} -> [r EXCEPT !.pc = "get"]
          [] r.kind = "diag" -> DiagEntry(r)

\* A request to a route without auth middleware arrives on a free connection:
\* express.json() runs, then the handler up to its first await.
ArrivePublic(s, kinds, max) ==
    /\ reqs[s].pc \in {"idle", "done"}
    /\ nReq < max
    /\ \E kind \in kinds, parse \in JsonVerdicts :
         LET r == [IdleReq EXCEPT !.kind = kind, !.parse = parse]
         IN  IF JsonRejected(parse)
             THEN /\ reqs' = [reqs EXCEPT ![s] = Respond(r, parse)]
                  /\ lazyInit' = lazyInit
             ELSE /\ \E in \in PublicInputs(kind) :
                        reqs' = [reqs EXCEPT ![s] = PublicEntry(r, in)]
                  /\ lazyInit' = IF kind = "diag" /\ apiKey THEN LazyInitAfterEnter
                                 ELSE lazyInit
    /\ nReq' = nReq + 1
    /\ gen' = [id \in DOMAIN gen \cap Kept(s) |-> gen[id]]
    /\ UNCHANGED <<client, travellers, itineraries, nextId, aiDocs, apiKey, generativeModel,
                   startupInit, orch, socVars>>

\* formatDate: yyyy/mm/dd of a stored date, null without one.
FormatDate(d) ==
    CASE d = "2025-05-01" -> "2025/05/01"
      [] d = "2025-05-09" -> "2025/05/09"
      [] OTHER -> "null"

\* SELECT i.*, t.email AS traveller_email FROM itineraries i JOIN travellers t
\* ON i.traveller_id = t.id WHERE i.id = ?
DetailRows(id) ==
    UNION { { [id |-> i, row |-> itineraries[i], traveller_email |-> t.email] :
                t \in {x \in travellers : x.id = itineraries[i].traveller_id} } :
            i \in {j \in DOMAIN itineraries : j = id} }

\* GET /api/itineraries/detail/:id once the SELECT resolved with rows.
DetailReply(r, rows) ==
    IF rows = {} THEN Respond(r, 404)
    ELSE LET it == CHOOSE x \in rows : TRUE
         IN  Respond([r EXCEPT !.data =
                        [kind |-> "detail", id |-> it.id,
                         traveller_email |-> it.traveller_email,
                         row |-> [it.row EXCEPT !.start_date = FormatDate(@),
                                                !.end_date = FormatDate(@)]]], 200)

\* GET detail: the SELECT resolves or throws (500).
DetailQuery(s) ==
    /\ reqs[s].kind = "detail" /\ reqs[s].pc = "query"
    /\ \E ok \in BOOLEAN :
         LET r == [reqs[s] EXCEPT !.ops = @ + 1]
         IN  reqs' = [reqs EXCEPT ![s] =
                        IF ok THEN DetailReply(r, DetailRows(r.id)) ELSE Fail(r)]
    /\ UNCHANGED <<client, travellers, itineraries, nextId, aiDocs, gen, nReq, aiVars, orch,
                   socVars>>

\* What GET /api/itineraries/:id/ai answers for id when the get resolves:
\* 404 without a document, else the document.
AiReadReply(id) ==
    IF id \notin DOMAIN aiDocs
    THEN [status |-> 404, data |-> NoData]
    ELSE [status |-> 200, data |-> [kind |-> "ai", id |-> id, doc |-> aiDocs[id]]]

\* GET /api/itineraries/:id/ai: the get resolves or throws (500).
AiRead(s) ==
    /\ reqs[s].kind = "airead" /\ reqs[s].pc = "get"
    /\ \E ok \in BOOLEAN :
         LET r     == [reqs[s] EXCEPT !.ops = @ + 1]
             reply == AiReadReply(r.id)
         IN  reqs' = [reqs EXCEPT ![s] =
                        IF ok THEN Respond([r EXCEPT !.data = reply.data], reply.status)
                        ELSE Fail(r)]
    /\ UNCHANGED <<client, travellers, itineraries, nextId, aiDocs, gen, nReq, aiVars, orch,
                   socVars>>

\* qs.size of likes/<id>/userLikes.
LikeCount(id) == Cardinality({ l \in likes : l.itinerary = id })

\* GET /api/itineraries/:id/like/count: the get resolves or throws (500).
LikeCountGet(s) ==
    /\ reqs[s].kind = "likecount" /\ reqs[s].pc = "get"
    /\ \E ok \in BOOLEAN :
         LET r == [reqs[s] EXCEPT !.ops = @ + 1]
         IN  reqs' = [reqs EXCEPT ![s] =
                        IF ok
                        THEN Respond([r EXCEPT !.data =
                                        [kind |-> "count", count |-> LikeCount(r.id)]], 200)
                        ELSE Fail(r)]
    /\ UNCHANGED <<client, travellers, itineraries, nextId, aiDocs, gen, nReq, aiVars, orch,
                   socVars>>

\* Errors pool.query rejects with: a driver error with a code, an error
\* without one.
DbErrors ==
    { [code |-> "ECONNREFUSED", message |-> "connect ECONNREFUSED 127.0.0.1:3306"],
      [code |-> "", message |-> "Pool is closed."] }

\* e?.code || e?.message
HealthDbError(e) == IF e.code # "" THEN e.code ELSE e.message

\* GET /health/db: SELECT 1 resolves ({ok: true}) or throws: 500 with the
\* error's code or message as body.
HealthDbQuery(s) ==
    /\ reqs[s].kind = "healthdb" /\ reqs[s].pc = "query"
    /\ LET r == [reqs[s] EXCEPT !.ops = @ + 1]
       IN  \/ reqs' = [reqs EXCEPT ![s] =
                         Respond([r EXCEPT !.data = [kind |-> "health", ok |-> TRUE]], 200)]
           \/ \E e \in DbErrors :
                reqs' = [reqs EXCEPT ![s] =
                           Respond([r EXCEPT !.threw = TRUE,
                                             !.data = [kind |-> "health",
                                                       error |-> HealthDbError(e)]], 500)]
    /\ UNCHANGED <<client, travellers, itineraries, nextId, aiDocs, gen, nReq, aiVars, orch,
                   socVars>>

\* summarizeGeminiError: the message of the error (name, status, code and
\* cause are not told apart in the model's provider errors).
SummarizeGeminiError(message) == [message |-> message]

\* GET /api/diagnostics/ai: generateContentWithRetry(generativeModel, 'ping', 1)
\* resolves (sample of the text) or throws (GENERATION_ERROR with the summary
\* of the error), 200 either way.
DiagPing(s, scripts) ==
    /\ reqs[s].kind = "diag" /\ reqs[s].pc = "ping"
    /\ \E script \in scripts :
         LET g == GenerateContentWithRetry(script, 1)
             r == reqs[s]
         IN  reqs' = [reqs EXCEPT ![s] =
                IF g.kind = "throw"
                THEN Respond([r EXCEPT !.threw = TRUE,
                                !.data = DiagData(FALSE, "GENERATION_ERROR",
                                            SummarizeGeminiError(g.result.message), <<>>)],
                             200)
                ELSE Respond([r EXCEPT !.data =
                                DiagData(TRUE, "", NoSummary, g.result.text)], 200)]
    /\ UNCHANGED <<client, travellers, itineraries, nextId, aiDocs, gen, nReq, aiVars, orch,
                   socVars>>

\* The itinerary routes under concurrent requests, on a server without an API
\* key (AI features disabled).
InitCrud ==
    /\ apiKey = FALSE
    /\ InitAi
    /\ orch = NewInv
    /\ InitSrv
    /\ bucket = TRUE

NextCrud ==
    \/ \E s \in Slots : Arrive(s, {"create", "put", "delete"}, CrudHeaders, MaxRequests)
    \/ \E s \in Slots : Verified(s, Bodies)
    \/ \E s \in Slots : CreateLookup(s)
    \/ \E s \in Slots : CreateInsert(s)
    \/ \E s \in Slots : FgWrite(s)
    \/ \E id \in DOMAIN gen : BgWrite(id)
    \/ \E s \in Slots : PutCheck(s)
    \/ \E s \in Slots : PutWrite(s)
    \/ \E s \in Slots : DeleteCheck(s)
    \/ \E s \in Slots : DeleteWrite(s)
    \/ \E id \in DOMAIN cleanups : CleanupLikes(id)
    \/ \E id \in DOMAIN cleanups : CleanupComments(id)

SpecCrud == InitCrud /\ [][NextCrud]_vars

\* Itinerary creation with the AI pipeline, from process start with an API
\* key: one client creating itineraries one after the other, each request sent
\* when the AI tasks of the previous one are over, the provider
\* answering with text, with an empty truncated answer, with an API error or
\* not at all (the request aborted).
MaxCreates == 1

CreateCalls ==
    { c \in CallInputs :
        \/ c.net[1].name = "AbortError"
        \/ /\ c.net[1].ok
           /\ \/ c.api = ApiThrow
              \/ c.api.text = <<"a">> /\ c.api.finishReason = "STOP"
              \/ c.api.text = <<>> /\ c.api.finishReason = "MAX_TOKENS" }

CreateScripts == [1..OrchTries -> CreateCalls]

\* The client's requests: with no token, as alice, or as carol, who has no
\* traveller row; with a valid body or an over-long short_description.
CreateHeaders ==
    { NoHeader } \cup { [scheme |-> "Bearer", token |-> u] : u \in {"alice", "carol"} }
CreateBodies == { Body("A", "Rome", 0), Body("A", "Rome", ShortDescMax + 1) }

InitCreate ==
    /\ apiKey = TRUE
    /\ InitAi
    /\ orch = NewInv
    /\ InitSrv
    /\ bucket = TRUE

NextCreate ==
    \/ Running = {} /\ Arrive("r1", {"create"}, CreateHeaders, MaxCreates)
    \/ Verified("r1", CreateBodies)
    \/ CreateLookup("r1")
    \/ CreateInsert("r1")
    \/ \E id \in DOMAIN gen : FgAttempt(id, CreateScripts)
    \/ SoftTimeout("r1")
    \/ FgWrite("r1")
    \/ \E id \in DOMAIN gen : BgAttempt(id, CreateScripts)
    \/ \E id \in DOMAIN gen : BgWrite(id)
    \/ InitStartupStep
    \/ InitLazyStep

SpecCreate == InitCreate /\ [][NextCreate]_vars


\* Every protected route, one client sending one request after the other, on
\* a server without an API key.
MaxCalls == 2

ProtectedKinds ==
    {"create", "put", "delete", "like", "comment", "uncomment", "ensure", "upload"}

InitAuth ==
    /\ apiKey = FALSE
    /\ InitAi
    /\ orch = NewInv
    /\ InitSrv
    /\ bucket \in BOOLEAN

NextAuth ==
    \/ Arrive("r1", ProtectedKinds, AuthHeaders, MaxCalls)
    \/ Verified("r1", CreateBodies)
    \/ UploadMulter("r1", CreateBodies)
    \/ CreateLookup("r1")
    \/ CreateInsert("r1")
    \/ FgWrite("r1")
    \/ \E id \in DOMAIN gen : BgWrite(id)
    \/ PutCheck("r1")
    \/ PutWrite("r1")
    \/ DeleteCheck("r1")
    \/ DeleteWrite("r1")
    \/ LikeGet("r1")
    \/ LikeWrite("r1")
    \/ CommentAdd("r1")
    \/ CommentGet("r1")
    \/ CommentDelete("r1")
    \/ EnsureSelect("r1")
    \/ EnsureInsert("r1")
    \/ UploadSave("r1")
    \/ UploadPublic("r1")
    \/ InitGcsStep
    \/ \E id \in DOMAIN cleanups : CleanupLikes(id)
    \/ \E id \in DOMAIN cleanups : CleanupComments(id)

SpecAuth == InitAuth /\ [][NextAuth]_vars

\* The docRef.set calls of a creation when the document store accepts them.
FgWriteOk(s) == FgWrite(s) /\ reqs'[s].ai_log_id # 0
BgWriteOk(id) == BgWrite(id) /\ gen'[id].bgSt = "done"

\* Itinerary creation with the AI pipeline, with or without an API key, from
\* the moment the start-up initGemini run is over (with or without a handle), when
\* every provider call (countTokens probe, generateContent) eventually
\* returns or fails and every docRef.set eventually resolves; the requests
\* are alice's, with a valid body.
LiveHeaders == { [scheme |-> "Bearer", token |-> "alice"] }
LiveBodies == { Body("A", "Rome", 0) }

\* The provider answers with text, with an empty truncated answer or with an
\* API error.
LiveScripts == { sc \in CreateScripts : \A i \in DOMAIN sc : sc[i].net[1].ok }

InitLive ==
    /\ apiKey \in BOOLEAN
    /\ generativeModel \in (IF apiKey THEN 0..NumCandidates ELSE {0})
    /\ startupInit = 0
    /\ lazyInit = 0
    /\ orch = NewInv
    /\ InitSrv
    /\ bucket = TRUE

NextLive ==
    \/ Running = {} /\ Arrive("r1", {"create"}, LiveHeaders, MaxCreates)
    \/ Verified("r1", LiveBodies)
    \/ CreateLookup("r1")
    \/ CreateInsert("r1")
    \/ \E id \in DOMAIN gen : FgAttempt(id, LiveScripts)
    \/ SoftTimeout("r1")
    \/ FgWriteOk("r1")
    \/ \E id \in DOMAIN gen : BgAttempt(id, LiveScripts)
    \/ \E id \in DOMAIN gen : BgWriteOk(id)
    \/ InitLazyStep

FairLive ==
    /\ WF_vars(\E id \in DOMAIN gen : FgAttempt(id, LiveScripts))
    /\ WF_vars(\E id \in DOMAIN gen : BgAttempt(id, LiveScripts))
    /\ WF_vars(FgWriteOk("r1"))
    /\ WF_vars(\E id \in DOMAIN gen : BgWriteOk(id))
    /\ WF_vars(InitLazyStep)

SpecLive == InitLive /\ [][NextLive]_vars /\ FairLive

\* The itinerary, like and comment routes and the public reads, one client
\* sending one request after the other (with no token, as alice or as bob), on
\* a server without an API key.
ApiKinds == {"create", "put", "delete", "like", "comment", "uncomment"}
ReadKinds == {"detail", "airead", "likecount"}

InitApi ==
    /\ apiKey = FALSE
    /\ InitAi
    /\ orch = NewInv
    /\ InitSrv
    /\ bucket = TRUE

NextApi ==
    \/ Arrive("r1", ApiKinds, CrudHeaders, MaxCalls)
    \/ ArrivePublic("r1", ReadKinds, MaxCalls)
    \/ Verified("r1", CreateBodies)
    \/ CreateLookup("r1")
    \/ CreateInsert("r1")
    \/ FgWrite("r1")
    \/ \E id \in DOMAIN gen : BgWrite(id)
    \/ PutCheck("r1")
    \/ PutWrite("r1")
    \/ DeleteCheck("r1")
    \/ DeleteWrite("r1")
    \/ LikeGet("r1")
    \/ LikeWrite("r1")
    \/ CommentAdd("r1")
    \/ CommentGet("r1")
    \/ CommentDelete("r1")
    \/ DetailQuery("r1")
    \/ AiRead("r1")
    \/ LikeCountGet("r1")
    \/ \E id \in DOMAIN cleanups : CleanupLikes(id)
    \/ \E id \in DOMAIN cleanups : CleanupComments(id)

SpecApi == InitApi /\ [][NextApi]_vars

\* Deleting itineraries that have likes and comments: a server without an
\* API key whose first itinerary has got a like and a comment from bob; one
\* client deleting, liking and commenting, one request after the other; each
\* recursive delete of a cleanup eventually settles, resolved or rejected.
InitCleanup ==
    /\ apiKey = FALSE
    /\ InitAi
    /\ orch = NewInv
    /\ bucket = TRUE
    /\ travellers = { [id |-> 1, email |-> "alice"], [id |-> 2, email |-> "bob"] }
    /\ itineraries = [i \in {1} |-> RowOf(1, Body("A", "Rome", 0))]
    /\ nextId = 2
    /\ aiDocs = <<>>
    /\ reqs = [s \in Slots |-> IdleReq]
    /\ gen = <<>>
    /\ nReq = 0
    /\ likes = { Like(1, "bob") }
    /\ comments = [c \in {1} |-> [itinerary |-> 1, email |-> "bob", text |-> <<"a">>]]
    /\ nextCid = 2
    /\ cleanups = <<>>
    /\ storage = "init"
    /\ avatars = {}
    /\ client = NewClient

NextCleanup ==
    \/ Arrive("r1", {"delete", "like", "comment"}, CrudHeaders, MaxCalls)
    \/ Verified("r1", CreateBodies)
    \/ DeleteCheck("r1")
    \/ DeleteWrite("r1")
    \/ LikeGet("r1")
    \/ LikeWrite("r1")
    \/ CommentAdd("r1")
    \/ \E id \in DOMAIN cleanups : CleanupLikes(id)
    \/ \E id \in DOMAIN cleanups : CleanupComments(id)

\* The promise of each recursiveDelete settles; a rejected one is only logged.
FairCleanup ==
    /\ WF_vars(\E id \in DOMAIN cleanups : CleanupLikes(id))
    /\ WF_vars(\E id \in DOMAIN cleanups : CleanupComments(id))

SpecCleanup == InitCleanup /\ [][NextCleanup]_vars /\ FairCleanup
\* server.js: its routes without auth middleware, diagnostics included, with
\* and without an API key, from process start: one client, one request after
\* the other.
PublicKinds == {"detail", "airead", "likecount", "diag"}

InitDiag ==
    /\ apiKey \in BOOLEAN
    /\ InitAi
    /\ orch = NewInv
    /\ InitSrv
    /\ bucket = TRUE

NextDiag ==
    \/ ArrivePublic("r1", PublicKinds, MaxCalls)
    \/ DetailQuery("r1")
    \/ AiRead("r1")
    \/ LikeCountGet("r1")
    \/ DiagPing("r1", CreateScripts)
    \/ InitStartupStep
    \/ InitLazyStep

SpecDiag == InitDiag /\ [][NextDiag]_vars

\* The verbose edition: its routes without auth middleware (it has
\* /health/db and no AI read-back route; its detail, like-count and
\* diagnostics handlers are those of server.js with log calls added).
HealthKinds == {"detail", "likecount", "healthdb", "diag"}

NextHealth ==
    \/ ArrivePublic("r1", HealthKinds, MaxCalls)
    \/ DetailQuery("r1")
    \/ LikeCountGet("r1")
    \/ HealthDbQuery("r1")
    \/ DiagPing("r1", CreateScripts)
    \/ InitStartupStep
    \/ InitLazyStep

SpecHealth == InitDiag /\ [][NextHealth]_vars

\* POST /api/travellers/ensure on two connections at once, the database up:
\* a query throws only when the INSERT meets a row with the same email.
EnsureHeaders == { [scheme |-> "Bearer", token |-> u] : u \in {"alice", "carol"} }

EnsureSelectOk(s) == EnsureSelect(s) /\ ~reqs'[s].threw

EnsureInsertOk(s) ==
    EnsureInsert(s) /\ (reqs'[s].threw => TravellerIds(reqs[s].email) # {})

InitEnsure ==
    /\ apiKey = FALSE
    /\ InitAi
    /\ orch = NewInv
    /\ InitSrv
    /\ bucket = TRUE

NextEnsure ==
    \/ \E s \in Slots : Arrive(s, {"ensure"}, EnsureHeaders, MaxCalls + 1)
    \/ \E s \in Slots : Verified(s, CreateBodies)
    \/ \E s \in Slots : EnsureSelectOk(s)
    \/ \E s \in Slots : EnsureInsertOk(s)

SpecEnsure == InitEnsure /\ [][NextEnsure]_vars

\* POST /api/itineraries/:id/like/toggle on two connections at once, by bob
\* and alice, Firestore up.
LikeHeaders == { [scheme |-> "Bearer", token |-> u] : u \in {"alice", "bob"} }

LikeGetOk(s) == LikeGet(s) /\ ~reqs'[s].threw

LikeWriteOk(s) == LikeWrite(s) /\ ~reqs'[s].threw

NextLikes ==
    \/ \E s \in Slots : Arrive(s, {"like"}, LikeHeaders, MaxCalls + 1)
    \/ \E s \in Slots : Verified(s, CreateBodies)
    \/ \E s \in Slots : LikeGetOk(s)
    \/ \E s \in Slots : LikeWriteOk(s)

SpecLikes == InitEnsure /\ [][NextLikes]_vars

\* --------------------------------------------------- verbose-logging edition
\* What a 201 of POST /api/itineraries tells the client about the AI.
AiFields(r) ==
    [status |-> r.status, ai_status |-> r.ai_status, suggestion |-> r.suggestion,
     ai_log_id |-> r.ai_log_id]

\* Verbose edition, POST /api/itineraries from the resolved INSERT to the
\* response, for the request r with its row inserted: the file calls
\* runWithSoftTimeout without defining it, so evaluating the call throws a
\* ReferenceError before getGeminiSuggestion is called; the inner catch sets
\* ai_status to 'error', suggestion and ai_log_id stay null, the background
\* task is started (one invocation) and the response is sent, all in the same
\* turn.
VerboseCreateReply(r) ==
    Respond([r EXCEPT !.ai_status = "error", !.suggestion = Null, !.ai_log_id = 0,
                      !.invs = @ + 1], 201)

\* The foreground invocation of a verbose-edition creation: never entered,
\* nothing of it runs.
NotCalled == [NewInv EXCEPT !.pc = "done"]

\* Verbose edition, POST: the INSERT throws (500), or resolves: the row is
\* inserted, the foreground block throws at once, the background task is
\* started and 201 is answered.
VerboseCreateInsert(s) ==
    /\ reqs[s].kind = "create" /\ reqs[s].pc = "insert"
    /\ \/ /\ reqs' = [reqs EXCEPT ![s] = Fail([@ EXCEPT !.ops = @ + 1])]
          /\ UNCHANGED <<itineraries, nextId, gen, lazyInit>>
       \/ LET id == nextId
              r  == [reqs[s] EXCEPT !.ops = @ + 1, !.id = id]
          IN  /\ itineraries' = Put(itineraries, id, RowOf(r.tid, r.body))
              /\ nextId' = nextId + 1
              /\ gen' = Put(gen, id, WithBackground(NewGen(NotCalled)))
              /\ reqs' = [reqs EXCEPT ![s] = VerboseCreateReply(r)]
              /\ lazyInit' = LazyInitAfterEnter
    /\ UNCHANGED <<client, travellers, aiDocs, nReq, apiKey, generativeModel, startupInit, orch, socVars>>

\* Creating itineraries on the verbose edition: the requests and provider
\* behaviours of SpecCreate.
NextVerbose ==
    \/ Running = {} /\ Arrive("r1", {"create"}, CreateHeaders, MaxCreates)
    \/ Verified("r1", CreateBodies)
    \/ CreateLookup("r1")
    \/ VerboseCreateInsert("r1")
    \/ \E id \in DOMAIN gen : BgAttempt(id, CreateScripts)
    \/ \E id \in DOMAIN gen : BgWrite(id)
    \/ InitStartupStep
    \/ InitLazyStep

SpecVerbose == InitCreate /\ [][NextVerbose]_vars

\* POST /api/upload-avatar, one client sending one request after the other,
\* with every Authorization header, file type and form body, while initGcs
\* runs and with or without a bucket name.
InitUpload ==
    /\ apiKey = FALSE
    /\ InitAi
    /\ orch = NewInv
    /\ InitSrv
    /\ bucket \in BOOLEAN

NextUpload ==
    \/ Arrive("r1", {"upload"}, AuthHeaders, MaxCalls)
    \/ Verified("r1", CreateBodies)
    \/ UploadMulter("r1", CreateBodies)
    \/ UploadSave("r1")
    \/ UploadPublic("r1")
    \/ InitGcsStep

SpecUpload == InitUpload /\ [][NextUpload]_vars
\* ------------------------------------------- client: AI suggestion polling
\* props.travellerEmail of the component.
TravellerEmail == "alice"

srvAll == <<aiVars, orch, srvVars, socVars>>

\* clearAiTimer.
ClearAiTimer(c) ==
    IF c.aiPollTimer # 0
    THEN [c EXCEPT !.live = @ \ {c.aiPollTimer}, !.aiPollTimer = 0]
    ELSE c

\* What axios gives for a request that got no answer or a 500: it throws
\* without a 404 response. Also the reply field of a request not answered yet.
NoAnswer == [status |-> 0, data |-> NoData]

\* What GET /api/itineraries/:id/ai gives the client when the server answers
\* now.
AiReads(id) == { NoAnswer, AiReadReply(id) }

\* What GET /api/itineraries/detail/:id gives the client when the server
\* answers now.
DetailReads(id) ==
    LET r == DetailReply(IdleReq, DetailRows(id))
    IN  { NoAnswer, [status |-> r.status, data |-> r.data] }

\* What GET /api/itineraries/by-email/:email gives the client when the server
\* answers now: every itinerary joined with its traveller.
ListReads ==
    { NoAnswer,
      [status |-> 200,
       data |-> [kind |-> "list",
                 rows |-> UNION { { [id |-> i, traveller_email |-> e] :
                                      e \in OwnerEmails(i) } :
                                  i \in DOMAIN itineraries }]] }

\* fetchAiSuggestionOnce, from the settling of its axios.get on: the
\* component after it, and the `terminal` it returns.
FetchAiSuggestionOnce(c, id, rep) ==
    LET st == IF rep.status = 200 THEN rep.data.doc.status
              ELSE IF rep.status = 404 THEN "queued"
              ELSE "error"
    IN  [c |-> [c EXCEPT !.aiStatus = st],
         terminal |-> st \in {"ok", "no_suggestion", "error"}]

\* startAiPolling up to its await of the first read.
StartAiPolling(c, id) ==
    [ClearAiTimer(c) EXCEPT
        !.aiStatus = "queued",
        !.runs = Append(@, [itinerary |-> id, pc |-> "first", tries |-> 0,
                            first |-> NoAnswer, sent |-> 0, got |-> EmptyBag])]

\* viewDetails(id) up to its await; save tells that saveEdit made the call
\* and awaits it.
OpenDetails(c, id, save) ==
    [c EXCEPT !.isEditing = FALSE,
              !.views = Append(@, [id |-> id, pc |-> "detail", rep |-> NoAnswer,
                                   save |-> save])]

\* fetchItineraries up to its await: one more list request is awaited.
ListSent(c) == [c EXCEPT !.lists.sent = @ + 1]

\* viewDetails call v returns: a saveEdit that awaited it goes on to call
\* fetchItineraries.
ViewOver(c, v) ==
    LET d == [c EXCEPT !.views[v] = [id |-> 0, pc |-> "over", rep |-> NoAnswer,
                                     save |-> FALSE]]
    IN  IF c.views[v].save THEN ListSent(d) ELSE d

\* The saveEdit calls whose PUT is not answered yet: each may still call
\* viewDetails.
Saving(c) == { k \in DOMAIN c.calls : c.calls[k].kind = "put" /\ c.calls[k].pc # "over" }

\* The requests awaited of a kind that keeps count: sent, or answered and not
\* delivered yet.
Awaited(r) == r.sent + BagCardinality(r.got)

\* The requests the component awaits: those of the viewDetails calls that have
\* not returned, the AI reads of the runs, the list requests and the write
\* calls.
RECURSIVE Reads(_)
Reads(runs) ==
    IF runs = <<>> THEN 0
    ELSE (IF Head(runs).pc \in {"first", "firstAnswered"} THEN 1 ELSE 0)
         + Awaited(Head(runs)) + Reads(Tail(runs))
Pending(c) ==
    Cardinality({ v \in DOMAIN c.views : c.views[v].pc # "over" }) + Reads(c.runs)
    + Awaited(c.lists)
    + Cardinality({ k \in DOMAIN c.calls : c.calls[k].pc # "over" })

\* The requests the component awaits at a time, at most: the user acts and a
\* timer fires while fewer are awaited.
MaxBusy == 2

\* The user opens the details of an itinerary of the list.
ViewDetails(ids, max) ==
    /\ Pending(client) < MaxBusy
    /\ Len(client.views) + Cardinality(Saving(client)) < max
    /\ \E id \in ids : client' = OpenDetails(client, id, FALSE)
    /\ UNCHANGED srvAll

\* The server answers the detail request of view v (or the request fails).
DetailAnswered(v) ==
    /\ v \in DOMAIN client.views /\ client.views[v].pc = "detail"
    /\ \E rep \in DetailReads(client.views[v].id) :
         client' = [client EXCEPT !.views[v].pc = "answered", !.views[v].rep = rep]
    /\ UNCHANGED srvAll

\* The answer to the detail request of view v reaches viewDetails: the catch
\* on a throw or a non-2xx answer; the refusal when only the traveller's own
\* trips are shown; else the itinerary is selected and the likes and comments
\* are loaded.
ViewDetailDone(v) ==
    /\ v \in DOMAIN client.views /\ client.views[v].pc = "answered"
    /\ \E showAll \in BOOLEAN :
         LET id  == client.views[v].id
             rep == client.views[v].rep
         IN  client' =
               IF rep.status # 200 THEN ViewOver(client, v)
               ELSE IF ~showAll /\ rep.data.traveller_email # TravellerEmail
                    THEN ViewOver([client EXCEPT !.selected = 0], v)
               ELSE [client EXCEPT !.selected = id, !.aiStatus = "idle",
                                   !.views[v].pc = "load", !.views[v].rep = NoAnswer]
    /\ UNCHANGED srvAll

\* loadLikeInfo and loadComments of view v have settled (both catch their
\* errors): startAiPolling is called, not awaited, and viewDetails returns.
ViewLoaded(v) ==
    /\ v \in DOMAIN client.views /\ client.views[v].pc = "load"
    /\ client' = ViewOver(StartAiPolling(client, client.views[v].id), v)
    /\ UNCHANGED srvAll

\* The server answers the first read of run n (or the request fails).
FirstAnswered(n) ==
    /\ n \in DOMAIN client.runs /\ client.runs[n].pc = "first"
    /\ \E rep \in AiReads(client.runs[n].itinerary) :
         client' = [client EXCEPT !.runs[n].pc = "firstAnswered", !.runs[n].first = rep]
    /\ UNCHANGED srvAll

\* The answer to the first read of run n reaches startAiPolling: the run is
\* over on a terminal status, else its interval timer is set.
PollFirst(n) ==
    /\ n \in DOMAIN client.runs /\ client.runs[n].pc = "firstAnswered"
    /\ LET f == FetchAiSuggestionOnce(client, client.runs[n].itinerary, client.runs[n].first)
       IN  client' =
             IF f.terminal THEN [f.c EXCEPT !.runs[n].pc = "over", !.runs[n].first = NoAnswer]
             ELSE [f.c EXCEPT !.runs[n].pc = "polling", !.runs[n].first = NoAnswer,
                              !.aiPollTimer = n, !.live = @ \cup {n}]
    /\ UNCHANGED srvAll

\* The timer callbacks run so far.
RECURSIVE Ticks(_)
Ticks(runs) == IF runs = <<>> THEN 0 ELSE Head(runs).tries + Ticks(Tail(runs))


\* The interval timer of run n fires: tries++ and a read is sent.
PollTick(n, max) ==
    /\ n \in client.live
    /\ Ticks(client.runs) < max
    /\ Pending(client) < MaxBusy
    /\ client' = [client EXCEPT !.runs[n].tries = @ + 1, !.runs[n].sent = @ + 1]
    /\ UNCHANGED srvAll

\* The server answers a read sent by a timer callback of run n (or the
\* request fails).
PollAnswered(n) ==
    /\ n \in DOMAIN client.runs /\ client.runs[n].sent > 0
    /\ \E rep \in AiReads(client.runs[n].itinerary) :
         client' = [client EXCEPT !.runs[n].sent = @ - 1,
                                  !.runs[n].got = @ (+) SetToBag({rep})]
    /\ UNCHANGED srvAll

\* An answer to a timed read of run n reaches its callback (answers arrive in
\* any order).
PollRead(n) ==
    /\ n \in DOMAIN client.runs
    /\ \E rep \in BagToSet(client.runs[n].got) :
         LET f == FetchAiSuggestionOnce(client, client.runs[n].itinerary, rep)
             c == [f.c EXCEPT !.runs[n].got = @ (-) SetToBag({rep})]
         IN  client' =
               IF f.terminal \/ c.runs[n].tries >= MaxTries THEN ClearAiTimer(c) ELSE c
    /\ UNCHANGED srvAll

\* The user reloads the list (reload button, refresh signal): fetchItineraries
\* up to its await. The call made at setup is awaited from the start.
FetchItineraries ==
    /\ Pending(client) < MaxBusy
    /\ client' = ListSent(client)
    /\ UNCHANGED srvAll

\* The server answers a list request (or the request fails).
ListAnswered ==
    /\ client.lists.sent > 0
    /\ \E rep \in ListReads :
         client' = [client EXCEPT !.lists.sent = @ - 1,
                                  !.lists.got = @ (+) SetToBag({rep})]
    /\ UNCHANGED srvAll

\* The answer to a list request reaches fetchItineraries: a selected
\* itinerary that is not among the visible ones is deselected.
FetchItinerariesDone ==
    /\ \E rep \in BagToSet(client.lists.got), showAll \in BOOLEAN :
         LET c   == [client EXCEPT !.lists.got = @ (-) SetToBag({rep})]
             raw == rep.data.rows
             visibleIds ==
                 { it.id : it \in IF showAll THEN raw
                                  ELSE { x \in raw : x.traveller_email = TravellerEmail } }
         IN  client' =
               IF rep.status # 200 THEN c
               ELSE IF c.selected # 0 /\ c.selected \notin visibleIds
                    THEN [c EXCEPT !.selected = 0, !.isEditing = FALSE]
               ELSE c
    /\ UNCHANGED srvAll

\* The user opens the edit form of the selected itinerary (the button is
\* shown to its owner; every itinerary here is the traveller's own).
StartEdit ==
    /\ client.selected # 0 /\ ~client.isEditing
    /\ client' = [client EXCEPT !.isEditing = TRUE]
    /\ UNCHANGED srvAll

\* The user closes the edit form without saving.
CancelEdit ==
    /\ client.selected # 0 /\ client.isEditing
    /\ client' = [client EXCEPT !.isEditing = FALSE]
    /\ UNCHANGED srvAll

\* A write call of the component, up to its await: the request is to be sent.
NewCall(c, kind) ==
    [c EXCEPT !.calls = Append(@, [kind |-> kind, id |-> c.selected,
                                   pc |-> "sent", slot |-> ""])]

\* The user deletes the selected itinerary and confirms: deleteItinerary up
\* to its await.
DeleteItinerary(max) ==
    /\ client.selected # 0 /\ ~client.isEditing
    /\ Pending(client) < MaxBusy
    /\ Len(client.calls) < max
    /\ client' = NewCall(client, "delete")
    /\ UNCHANGED srvAll

\* The user submits the edit form (short description within 80 characters,
\* else saveEdit returns): saveEdit up to its await of the PUT.
SaveEdit(max, views) ==
    /\ client.selected # 0 /\ client.isEditing
    /\ Pending(client) < MaxBusy
    /\ Len(client.calls) < max
    /\ Len(client.views) + Cardinality(Saving(client)) < views
    /\ client' = NewCall(client, "put")
    /\ UNCHANGED srvAll

\* The write call whose request connection s carries.
CallOn(s) == { k \in DOMAIN client.calls :
                 client.calls[k].pc = "server" /\ client.calls[k].slot = s }

\* The write requests of the component that have reached the server.
CallsArrived ==
    Cardinality({ k \in DOMAIN client.calls : client.calls[k].pc # "sent" })

\* The request of write call k reaches the server on a free connection s
\* (well-formed JSON, the Authorization header axios holds).
CallArrive(k, s, hdrs) ==
    /\ k \in DOMAIN client.calls /\ client.calls[k].pc = "sent"
    /\ reqs[s].pc \in {"idle", "done"} /\ CallOn(s) = {}
    /\ \E hdr \in hdrs :
         reqs' = [reqs EXCEPT ![s] = Arrived(client.calls[k].kind, hdr, 0)]
    /\ nReq' = nReq + 1
    /\ gen' = [id \in DOMAIN gen \cap Kept(s) |-> gen[id]]
    /\ client' = [client EXCEPT !.calls[k].pc = "server", !.calls[k].slot = s]
    /\ UNCHANGED <<travellers, itineraries, nextId, aiDocs, aiVars, orch, socVars>>

\* verifyIdToken resolves for the component's request on connection s, which
\* names the itinerary that was selected; a PUT carries the form's fields.
CallVerified(s, bodies) ==
    /\ CallOn(s) # {}
    /\ Verified(s, IF reqs[s].kind = "put" THEN bodies ELSE {NoBody})
    /\ \/ reqs'[s].pc = "done"
       \/ \A k \in CallOn(s) : reqs'[s].id = client.calls[k].id

\* Write call k with its answer delivered (its connection is free again).
CallOver(c, k) ==
    [c EXCEPT !.calls[k] = [kind |-> @.kind, id |-> 0, pc |-> "over", slot |-> ""]]

\* The answer to the DELETE of call k reaches deleteItinerary: on a 2xx
\* answer the selection is dropped and fetchItineraries is called.
DeleteItineraryDone(k) ==
    /\ k \in DOMAIN client.calls /\ client.calls[k].pc = "server"
    /\ client.calls[k].kind = "delete"
    /\ LET s == client.calls[k].slot
       IN  /\ reqs[s].kind = "delete" /\ reqs[s].pc = "done"
           /\ client' =
                 IF reqs[s].status = 200
                 THEN ListSent([CallOver(client, k) EXCEPT !.selected = 0])
                 ELSE CallOver(client, k)
           /\ reqs' = [reqs EXCEPT ![s] = IdleReq]
    /\ UNCHANGED <<travellers, itineraries, nextId, aiDocs, gen, nReq, aiVars, orch, socVars>>

\* The answer to the PUT of call k reaches saveEdit: on a 2xx answer the form
\* is closed and viewDetails(data.id) is called and awaited.
SaveEditDone(k) ==
    /\ k \in DOMAIN client.calls /\ client.calls[k].pc = "server"
    /\ client.calls[k].kind = "put"
    /\ LET s == client.calls[k].slot
       IN  /\ reqs[s].kind = "put" /\ reqs[s].pc = "done"
           /\ client' =
                 IF reqs[s].status = 200
                 THEN OpenDetails(CallOver(client, k), client.calls[k].id, TRUE)
                 ELSE CallOver(client, k)
           /\ reqs' = [reqs EXCEPT ![s] = IdleReq]
    /\ UNCHANGED <<travellers, itineraries, nextId, aiDocs, gen, nReq, aiVars, orch, socVars>>

\* Polling on a server without an API key, while alice creates an itinerary:
\* the user opens an itinerary once, may delete it or edit and save it, and
\* reload the list; answers take any time.
MaxTicks == 9
\* The deleteItinerary and saveEdit calls the user makes, at most.
MaxWrites == 1
\* The viewDetails calls, from clicks and from saveEdit, at most.
MaxViews == 2

InitPoll ==
    /\ apiKey = FALSE
    /\ InitAi
    /\ orch = NewInv
    /\ InitSrv
    /\ bucket = TRUE

NextPoll ==
    \/ Arrive("r1", {"create"}, LiveHeaders, MaxCreates + CallsArrived)
    \/ Verified("r1", LiveBodies)
    \/ CreateLookup("r1")
    \/ CreateInsert("r1")
    \/ FgWrite("r1")
    \/ \E id \in DOMAIN gen : BgWrite(id)
    \/ ViewDetails(TargetIds, 1)
    \/ \E v \in 1..MaxViews : DetailAnswered(v)
    \/ \E v \in 1..MaxViews : ViewDetailDone(v)
    \/ \E v \in 1..MaxViews : ViewLoaded(v)
    \/ \E n \in 1..MaxViews : FirstAnswered(n)
    \/ \E n \in 1..MaxViews : PollFirst(n)
    \/ \E n \in 1..MaxViews : PollTick(n, MaxTicks)
    \/ \E n \in 1..MaxViews : PollAnswered(n)
    \/ \E n \in 1..MaxViews : PollRead(n)
    \/ FetchItineraries
    \/ ListAnswered
    \/ FetchItinerariesDone
    \/ StartEdit
    \/ CancelEdit
    \/ DeleteItinerary(MaxWrites)
    \/ SaveEdit(MaxWrites, MaxViews)
    \/ \E k \in 1..MaxWrites : CallArrive(k, "r2", LiveHeaders)
    \/ CallVerified("r2", LiveBodies)
    \/ DeleteCheck("r2")
    \/ DeleteWrite("r2")
    \/ PutCheck("r2")
    \/ PutWrite("r2")
    \/ \E k \in 1..MaxWrites : DeleteItineraryDone(k)
    \/ \E k \in 1..MaxWrites : SaveEditDone(k)
    \/ \E id \in DOMAIN cleanups : CleanupLikes(id)
    \/ \E id \in DOMAIN cleanups : CleanupComments(id)

SpecPoll == InitPoll /\ [][NextPoll]_vars

\* alice has created itineraries; then the user opens itineraries one after
\* the other without waiting for the earlier view, may delete the selected
\* one or edit and save it, and reload the list.
ViewTicks == 1

NextView ==
    \/ client = NewClient /\ Arrive("r1", {"create"}, LiveHeaders, MaxCreates)
    \/ client = NewClient /\ Verified("r1", LiveBodies)
    \/ client = NewClient /\ CreateLookup("r1")
    \/ client = NewClient /\ CreateInsert("r1")
    \/ client = NewClient /\ FgWriteOk("r1")
    \/ client = NewClient /\ \E id \in DOMAIN gen : BgWriteOk(id)
    \/ ViewDetails(TargetIds, MaxViews)
    \/ \E v \in 1..MaxViews : DetailAnswered(v)
    \/ \E v \in 1..MaxViews : ViewDetailDone(v)
    \/ \E v \in 1..MaxViews : ViewLoaded(v)
    \/ \E n \in 1..MaxViews : FirstAnswered(n)
    \/ \E n \in 1..MaxViews : PollFirst(n)
    \/ \E n \in 1..MaxViews : PollTick(n, ViewTicks)
    \/ \E n \in 1..MaxViews : PollAnswered(n)
    \/ \E n \in 1..MaxViews : PollRead(n)
    \/ FetchItineraries
    \/ ListAnswered
    \/ FetchItinerariesDone
    \/ StartEdit
    \/ CancelEdit
    \/ DeleteItinerary(MaxWrites)
    \/ SaveEdit(MaxWrites, MaxViews)
    \/ \E k \in 1..MaxWrites : CallArrive(k, "r2", LiveHeaders)
    \/ CallVerified("r2", LiveBodies)
    \/ DeleteCheck("r2")
    \/ DeleteWrite("r2")
    \/ PutCheck("r2")
    \/ PutWrite("r2")
    \/ \E k \in 1..MaxWrites : DeleteItineraryDone(k)
    \/ \E k \in 1..MaxWrites : SaveEditDone(k)
    \/ \E id \in DOMAIN cleanups : CleanupLikes(id)
    \/ \E id \in DOMAIN cleanups : CleanupComments(id)

SpecView == InitPoll /\ [][NextView]_vars
\* ================================================================ claims
\* The generateContent calls of an invocation that returned a response.
OkCalls(inv) == SelectSeq(inv.callLog, LAMBDA c : c.kind = "ok")
ThrownCalls(inv) == SelectSeq(inv.callLog, LAMBDA c : c.kind = "throw")

RECURSIVE SumRequests(_)
SumRequests(log) == IF log = <<>> THEN 0 ELSE Head(log).requests + SumRequests(Tail(log))

\* C5 (as claimed): the status of a finished invocation is ok exactly when the
\* returned text is non-empty, error exactly when there is no text and a
\* provider call failed, and no_suggestion only when the model was called,
\* its last answer was empty and no call failed.
C5_StatusClassification ==
    orch.pc = "done" =>
        /\ AiStatus(orch) \in {"ok", "no_suggestion", "error"}
        /\ (AiStatus(orch) = "ok") <=> Truthy(orch.text)
        /\ (AiStatus(orch) = "error") <=>
              (~Truthy(orch.text) /\ ThrownCalls(orch) # <<>>)
        /\ (AiStatus(orch) = "no_suggestion") =>
              /\ orch.callLog # <<>>
              /\ ThrownCalls(orch) = <<>>
              /\ Trim(orch.callLog[Len(orch.callLog)].text) = <<>>

\* C6: the attempts escalate in a fixed order. The recorded attempts are the
\* answered calls, numbered 1..k in call order with k <= 3; the call of
\* attempt 2 is made exactly when attempt 1 returned empty text or finish
\* reason MAX_TOKENS, and the call of attempt 3 exactly when attempt 2
\* returned empty text.
C6_AttemptEscalation ==
    LET a == orch.attempts
        answered == OkCalls(orch)
    IN  /\ Len(a) <= 3
        /\ Len(orch.issued) <= 3
        /\ \A i \in 1..Len(orch.issued) : orch.issued[i] = i
        /\ Len(a) = Len(answered)
        /\ Len(a) <= Len(orch.issued)
        /\ \A i \in 1..Len(a) :
              /\ a[i].no = i
              /\ a[i].hadText <=> (Trim(answered[i].text) # <<>>)
              /\ a[i].finishReason = GetFinishReason(answered[i])
        /\ (Len(orch.issued) >= 2) <=>
              (Len(a) >= 1 /\ (~a[1].hadText \/ answered[1].finishReason = "MAX_TOKENS"))
        /\ (Len(orch.issued) >= 3) <=> (Len(a) >= 2 /\ ~a[2].hadText)

\* C6 witness: an invocation over after three recorded attempts, the second
\* made because attempt 1 was cut by the cap although it had text.
C6_Witness ==
    /\ orch.pc = "done"
    /\ Len(orch.attempts) = 3
    /\ orch.attempts[1].hadText
    /\ orch.attempts[1].finishReason = "MAX_TOKENS"

AllEmptyMaxTokens(log) ==
    \A i \in 1..Len(log) :
        log[i].kind = "ok" /\ log[i].text = <<>> /\ log[i].finishReason = "MAX_TOKENS"

\* C7: when the provider answers every call of an invocation with empty text
\* and finish reason MAX_TOKENS, the invocation ends with status
\* no_suggestion after exactly 3 recorded attempts.
C7_AlwaysEmptyMaxTokens ==
    (orch.pc = "done" /\ ~orch.notReady /\ AllEmptyMaxTokens(orch.callLog)) =>
        /\ AiStatus(orch) = "no_suggestion"
        /\ Len(orch.attempts) = 3
        /\ Len(orch.callLog) = 3
        /\ \A i \in 1..3 : ~orch.attempts[i].hadText
                           /\ orch.attempts[i].finishReason = "MAX_TOKENS"

\* C7 witness: a finished invocation all of whose provider calls (there are
\* some) were answered with empty text and MAX_TOKENS.
C7_Witness ==
    /\ orch.pc = "done"
    /\ orch.callLog # <<>>
    /\ AllEmptyMaxTokens(orch.callLog)

\* Messages of provider errors that are no network failure.
NonNetworkMessages == {"API key not valid", "certificate has expired"}

\* C8: when the first provider call of an invocation throws a non-network
\* error, the invocation makes exactly that one call (one request, no wait,
\* no attempt 2 or 3), records no attempt, and its status is error.
C8_NonNetworkErrorNoRetry ==
    (/\ orch.pc = "done"
     /\ orch.callLog # <<>>
     /\ orch.callLog[1].kind = "throw"
     /\ orch.callLog[1].message \in NonNetworkMessages) =>
        /\ Len(orch.callLog) = 1
        /\ orch.callLog[1].requests = 1
        /\ orch.delays = <<>>
        /\ orch.issued = <<1>>
        /\ orch.attempts = <<>>
        /\ AiStatus(orch) = "error"
        /\ orch.error = orch.callLog[1].message

\* C8 witness: a finished invocation whose first provider call threw a
\* non-network error.
C8_Witness ==
    /\ orch.pc = "done"
    /\ orch.callLog # <<>>
    /\ orch.callLog[1].kind = "throw"
    /\ orch.callLog[1].message \in NonNetworkMessages

\* C9 (as claimed): a provider call of the orchestrator that fails with a
\* network-classified error is tried again before the orchestrator gives up
\* (so an invocation that ended on a network failure made more than one
\* request for that call), and a non-network failure is followed by no wait
\* and no further call.
C9_NetworkFailureRetried ==
    (orch.pc = "done" /\ orch.error # "none") =>
        LET last == orch.callLog[Len(orch.callLog)]
        IN  IF BizNetworky(orch.error)
            THEN SumRequests(ThrownCalls(orch)) >= 2
            ELSE last.kind = "throw" /\ orch.delays = <<>>

\* ---------------------------------------------------- claims on the routes
CreateReqs == { s \in Slots : reqs[s].kind = "create" }

\* C1: once POST /api/itineraries has inserted the row, no response is sent
\* before the foreground path is over, and the response that is sent is 201
\* with the new row's id and an ai_status among queued, ok, no_suggestion,
\* error, whatever the provider calls, the model initialisation, the soft
\* timer and the AI-record write did.
C1_CreateAlways201 ==
    \A s \in CreateReqs :
        LET r == reqs[s]
        IN  /\ r.pc \in {"race", "fgwrite"} => (r.status = 0 /\ r.id \in DOMAIN gen)
            /\ (r.pc = "done" /\ r.id # 0) =>
                  /\ r.status = 201
                  /\ r.id \in DOMAIN itineraries
                  /\ itineraries[r.id] = RowOf(r.tid, r.body)
                  /\ r.ai_status \in {"queued", "ok", "no_suggestion", "error"}
            /\ (r.pc = "done" /\ r.status \in {400, 401, 404, 500}) => r.id = 0

\* C1 witness: a creation answered 201 although a provider call of its
\* foreground invocation threw.
C1_Witness ==
    \E s \in CreateReqs :
        /\ reqs[s].pc = "done" /\ reqs[s].status = 201
        /\ reqs[s].ai_status = "error"
        /\ gen[reqs[s].id].fg.error # "none"

\* C10: the background invocation of a creation is started exactly when the
\* foreground path ends with an ai_status other than ok, never before the
\* foreground path is over, and a creation starts one foreground invocation
\* and at most one background invocation.
C10_BackgroundExactlyWhenNotOk ==
    \A s \in CreateReqs :
        LET r == reqs[s]
        IN  /\ r.pc \in {"race", "fgwrite"} => (gen[r.id].bgSt = "none" /\ r.invs = 1)
            /\ (r.pc = "done" /\ r.status = 201) =>
                  /\ (gen[r.id].bgSt # "none") <=> (r.ai_status # "ok")
                  /\ r.invs = (IF gen[r.id].bgSt # "none" THEN 2 ELSE 1)
                  /\ gen[r.id].fg.pc # "new"
                  /\ (gen[r.id].bgSt # "none") <=> (gen[r.id].bg.pc # "new")

\* C10 witness: a creation whose foreground generation returned text but
\* whose AI-record write failed: answered with ai_status error, background
\* task started.
C10_Witness ==
    \E s \in CreateReqs :
        /\ reqs[s].pc = "done" /\ reqs[s].status = 201
        /\ reqs[s].ai_status = "error"
        /\ Truthy(reqs[s].suggestion)
        /\ gen[reqs[s].id].bgSt # "none"

\* The rows of table itineraries that a step changes or removes.
Touched == { i \in DOMAIN itineraries :
               i \notin DOMAIN itineraries' \/ itineraries'[i] # itineraries[i] }

\* C2: a step changes or removes an itinerary row only as the write of an
\* update or delete request whose token email is the email of the row's
\* owner; and the ownership query of an update (with a valid body) or delete
\* by any other caller on an existing row ends the request with 403 (with
\* 500 when the query itself threw), the rows unchanged.
C2_OwnerOnlyMutation ==
    [][ /\ \A i \in Touched :
              \E s \in Slots :
                  /\ reqs[s].kind \in {"put", "delete"}
                  /\ reqs[s].pc = "write" /\ reqs'[s].pc = "done"
                  /\ reqs'[s].status = 200
                  /\ reqs[s].id = i
                  /\ reqs[s].auth = [scheme |-> "Bearer", token |-> reqs[s].email]
                  /\ reqs[s].email \in OwnerEmails(i)
        /\ \A s \in Slots :
              ( /\ reqs[s].kind \in {"put", "delete"}
                /\ reqs[s].pc = "check"
                /\ reqs'[s] # reqs[s]
                /\ reqs[s].id \in DOMAIN itineraries
                /\ reqs[s].email \notin OwnerEmails(reqs[s].id) )
              => ( /\ reqs'[s].pc = "done"
                   /\ reqs'[s].status = (IF reqs'[s].threw THEN 500 ELSE 403)
                   /\ itineraries' = itineraries )
      ]_vars

\* C2 witness: an update or delete of an existing itinerary by a caller who
\* is not its owner, answered 403, next to the untouched row.
C2_Witness ==
    \E s \in Slots :
        /\ reqs[s].kind \in {"put", "delete"}
        /\ reqs[s].pc = "done" /\ reqs[s].status = 403
        /\ reqs[s].id \in DOMAIN itineraries
        /\ reqs[s].email \notin OwnerEmails(reqs[s].id)

\* C4: no stored itinerary has a short_description longer than 80 characters,
\* and a create or update by an authenticated caller whose short_description
\* is longer than that is answered 400 without any store access and without
\* starting an AI generation.
C4_ShortDescriptionBound ==
    /\ \A i \in DOMAIN itineraries :
          Len(itineraries[i].short_description) <= ShortDescMax
    /\ \A s \in Slots :
          ( /\ reqs[s].kind \in {"create", "put"}
            /\ reqs[s].pc \notin {"idle", "verify"}
            /\ reqs[s].auth \in ValidHeaders
            /\ Len(reqs[s].body.short_description) > ShortDescMax )
          => ( /\ reqs[s].pc = "done"
               /\ reqs[s].status = 400
               /\ reqs[s].ops = 0
               /\ reqs[s].invs = 0 )

\* C4 witness: a create or update with all required fields and a
\* short_description of 81 characters, answered 400.
C4_Witness ==
    \E s \in Slots :
        /\ reqs[s].kind \in {"create", "put"}
        /\ reqs[s].pc = "done" /\ reqs[s].status = 400
        /\ reqs[s].body = Body("A", "Rome", ShortDescMax + 1)

\* The requests that carry no verifiable Bearer token: no Authorization
\* header, another scheme, an empty token, a token verifyIdToken rejects.
Unauthenticated ==
    { s \in Slots : reqs[s].pc # "idle" /\ reqs[s].auth \notin ValidHeaders }

\* C3 as stated: every request to a protected route without a verifiable
\* Bearer token is answered 401 and performs no read or write on the
\* relational store, the document store or the object storage.
C3_UnauthenticatedAlways401 ==
    \A s \in Unauthenticated :
        /\ reqs[s].ops = 0 /\ reqs[s].invs = 0
        /\ reqs[s].pc = "done" => reqs[s].status = 401

\* C3 amended: such a request performs no read or write on any store and
\* starts no AI generation, and it is answered 401, unless the JSON body
\* parser, which runs before the auth middleware, rejected its body: then it
\* is answered with the parser's 4xx status.
C3_UnauthenticatedNoAccess ==
    \A s \in Unauthenticated :
        LET r == reqs[s]
        IN  /\ r.ops = 0 /\ r.invs = 0
            /\ r.pc \in {"verify", "done"}
            /\ r.email = "" /\ r.id = 0 /\ r.tid = 0
            /\ r.pc = "done" =>
                  r.status = (IF r.parse = 400 THEN 400 ELSE 401)

\* C3 witness: a request whose body parsed and whose Bearer token failed
\* verification, answered 401, after an earlier request went through.
C3_Witness ==
    \E s \in Unauthenticated :
        /\ reqs[s].pc = "done" /\ reqs[s].status = 401
        /\ reqs[s].parse = 0
        /\ reqs[s].auth = [scheme |-> "Bearer", token |-> "expired"]
        /\ reqs[s].kind = "upload"
        /\ nReq = 2

\* --------------------------------------------- claims on the AI record
\* A create request shown on a connection is awaiting its foreground docRef.set
\* for itinerary id.
FgPending(id) ==
    \E s \in Slots :
        reqs[s].kind = "create" /\ reqs[s].id = id /\ reqs[s].pc = "fgwrite"

\* A create request for itinerary id is still awaiting the race.
FgRacing(id) ==
    \E s \in Slots :
        reqs[s].kind = "create" /\ reqs[s].id = id /\ reqs[s].pc = "race"

WritesBy(c, by) == SelectSeq(c.writes, LAMBDA w : w.by = by)

Resolved(c, by) == \E i \in 1..Len(c.writes) : c.writes[i].by = by /\ c.writes[i].ok

\* C11: the AI record of a creation is written at most twice, at most once
\* by the foreground path and at most once by the background task; the
\* background task exists only once the foreground write has settled (none
\* is pending or still to come), so a foreground write is first in the
\* order of writes; and after a background write that resolved the record is
\* the background result, after a lone resolved foreground write the
\* foreground one.
C11_AtMostTwoWritesInOrder ==
    \A id \in DOMAIN gen :
        LET c == gen[id]
            w == c.writes
        IN  /\ Len(w) + (IF FgPending(id) \/ c.bgSt = "write" THEN 1 ELSE 0) <= 2
            /\ Len(WritesBy(c, "fg")) + (IF FgPending(id) THEN 1 ELSE 0) <= 1
            /\ Len(WritesBy(c, "bg")) + (IF c.bgSt = "write" THEN 1 ELSE 0) <= 1
            /\ \A i \in 1..Len(w) : w[i].by = "fg" => i = 1
            /\ c.bgSt # "none" => (~FgPending(id) /\ ~FgRacing(id))
            /\ (id \in DOMAIN aiDocs) <=> (Resolved(c, "fg") \/ Resolved(c, "bg"))
            /\ Resolved(c, "bg") => aiDocs[id] = AiDoc(c.bg, AiStatus(c.bg), "bg")
            /\ (Resolved(c, "fg") /\ ~Resolved(c, "bg")) =>
                  aiDocs[id] = AiDoc(c.fg, AiStatus(c.fg), "fg")

\* C11 witness: both writes of a creation resolved, the foreground one with
\* status no_suggestion, and the record holds the text the background
\* invocation returned.
C11_Witness ==
    \E id \in DOMAIN gen :
        /\ gen[id].writes = << [by |-> "fg", ok |-> TRUE], [by |-> "bg", ok |-> TRUE] >>
        /\ AiStatus(gen[id].fg) = "no_suggestion"
        /\ aiDocs[id].by = "bg"
        /\ aiDocs[id].status = "ok"

\* C12: when the soft timer wins the race, the step leaves the foreground
\* invocation as it is, still awaiting (nothing cancels it); from then on
\* the foreground path writes nothing, a record of that creation is the
\* background result, and the response carries none of the foreground
\* result (suggestion and ai_log_id null, ai_status queued).
C12_SoftTimeoutDiscardsForeground ==
    /\ [] (\A id \in DOMAIN gen :
             gen[id].soft =>
               /\ WritesBy(gen[id], "fg") = <<>>
               /\ ~FgPending(id) /\ ~FgRacing(id)
               /\ gen[id].bgSt # "none"
               /\ id \in DOMAIN aiDocs =>
                     aiDocs[id] = AiDoc(gen[id].bg, AiStatus(gen[id].bg), "bg")
               /\ \A s \in Slots :
                     (reqs[s].kind = "create" /\ reqs[s].id = id) =>
                        /\ reqs[s].pc = "done" /\ reqs[s].status = 201
                        /\ reqs[s].suggestion = Null
                        /\ reqs[s].ai_log_id = 0
                        /\ reqs[s].ai_status = "queued")
    /\ [][ \A id \in DOMAIN gen :
             (~gen[id].soft /\ id \in DOMAIN gen' /\ gen'[id].soft) =>
                /\ gen'[id].fg = gen[id].fg
                /\ gen[id].fg.pc \in AttemptPcs \cup {"ensure"} ]_vars

\* C12 witness: the foreground invocation of a timed-out creation went on
\* to return text, and the record of the creation is the background result
\* without text.
C12_Witness ==
    \E id \in DOMAIN gen :
        /\ gen[id].soft
        /\ gen[id].fg.pc = "done" /\ Truthy(gen[id].fg.text)
        /\ gen[id].fg.callLog # <<>>
        /\ id \in DOMAIN aiDocs
        /\ aiDocs[id].suggestion = Null

\* C13: a 201 response has ai_status queued exactly when the soft timer won
\* the race of that creation; then suggestion and ai_log_id are null, and at
\* the step that sends it no docRef.set of the creation has been made and no
\* record of the itinerary exists.
C13_QueuedExactlyOnSoftTimeout ==
    /\ [] (\A s \in CreateReqs :
             (reqs[s].pc = "done" /\ reqs[s].status = 201) =>
                /\ (reqs[s].ai_status = "queued") <=> gen[reqs[s].id].soft
                /\ reqs[s].ai_status = "queued" =>
                      /\ reqs[s].suggestion = Null
                      /\ reqs[s].ai_log_id = 0
                      /\ WritesBy(gen[reqs[s].id], "fg") = <<>>)
    /\ [][ \A s \in Slots :
             ( /\ reqs[s].kind = "create" /\ reqs[s].pc # "done"
               /\ reqs'[s].pc = "done" /\ reqs'[s].status = 201
               /\ reqs'[s].ai_status = "queued" ) =>
                /\ reqs[s].pc = "race"
                /\ gen[reqs[s].id].fg.pc # "done"
                /\ gen'[reqs[s].id].writes = <<>>
                /\ gen'[reqs[s].id].bgSt = "run"
                /\ reqs[s].id \notin DOMAIN aiDocs' ]_vars

\* C13 witness: a creation answered queued whose background task is still
\* running, no record written.
C13_Witness ==
    \E s \in CreateReqs :
        /\ reqs[s].pc = "done" /\ reqs[s].status = 201
        /\ reqs[s].ai_status = "queued"
        /\ gen[reqs[s].id].bgSt = "run"
        /\ reqs[s].id \notin DOMAIN aiDocs

\* ------------------------------------------------- claims on the read-back
\* The ids INSERT gives to the itineraries created in a run.
NewIds == 2..(MaxCreates + 1)

\* The creation of itinerary id was answered 201.
Answered201(id) ==
    \E s \in Slots :
        /\ reqs[s].kind = "create" /\ reqs[s].id = id
        /\ reqs[s].pc = "done" /\ reqs[s].status = 201

\* GET /api/itineraries/:id/ai answers with a record of terminal status.
ReadBack(id) ==
    /\ AiReadReply(id).status = 200
    /\ AiReadReply(id).data.doc.status \in {"ok", "no_suggestion", "error"}

\* C14: when provider calls return or fail and document writes resolve, a
\* creation answered 201 leads to a state in which GET /api/itineraries/:id/ai
\* answers 200 with a record of status ok, no_suggestion or error for its id,
\* and the read-back keeps answering so from then on.
C14_RecordEventuallyReadable ==
    /\ \A id \in NewIds : Answered201(id) ~> ReadBack(id)
    /\ [][\A id \in NewIds : ReadBack(id) => ReadBack(id)']_vars

\* C14 witness: a creation answered queued (nothing written at response
\* time) whose record can now be read back with the status error of the
\* background invocation.
C14_Witness ==
    \E id \in NewIds :
        /\ Answered201(id)
        /\ \E s \in Slots : reqs[s].id = id /\ reqs[s].ai_status = "queued"
        /\ ReadBack(id)
        /\ aiDocs[id].status = "error"
        /\ aiDocs[id].by = "bg"

\* ------------------------------------------------ claims on likes, comments
\* A like toggle of connection s is answered 200 in this step.
ToggleAnswered(s) ==
    /\ reqs[s].kind = "like" /\ reqs[s].pc \in {"set", "unset"}
    /\ reqs'[s].pc = "done" /\ reqs'[s].status = 200

\* C15: on every set of like documents the server reaches, for every user and
\* itinerary, two like toggles run one after the other give back the like
\* documents (so the user's liked state and the itinerary's like count) of
\* before the first, the first answering the flipped liked state and the
\* second the original one; and every toggle the server answers 200 has
\* applied exactly that step: it changed no other like document, and the
\* liked field it answers is the user's liked state it leaves.
C15_DoubleToggleRestores ==
    /\ [] (\A id \in TargetIds, u \in Users :
             LET l   == Like(id, u)
                 was == l \in likes
                 t1  == Toggle(likes, l)
                 t2  == Toggle(t1.likes, l)
             IN  /\ t1.liked = (IF was THEN "false" ELSE "true")
                 /\ (l \in t1.likes) <=> ~was
                 /\ t2.liked = (IF was THEN "true" ELSE "false")
                 /\ t2.likes = likes
                 /\ Cardinality({ x \in t2.likes : x.itinerary = id }) = LikeCount(id)
                 /\ Cardinality({ x \in t1.likes : x.itinerary = id }) =
                       LikeCount(id) + (IF was THEN -1 ELSE 1))
    /\ [][ \A s \in Slots :
             ToggleAnswered(s) =>
                LET l == Like(reqs[s].id, reqs[s].email)
                IN  /\ likes' \ {l} = likes \ {l}
                    /\ (reqs'[s].liked = "true") <=> (l \in likes')
                    /\ (reqs'[s].liked = "false") <=> (l \notin likes')
                    /\ (reqs[s].pc = "set" /\ l \notin likes) =>
                          likes' = Toggle(likes, l).likes
                    /\ (reqs[s].pc = "unset" /\ l \in likes) =>
                          likes' = Toggle(likes, l).likes ]_vars

\* C15 witness: the second request of the client is a like toggle answered
\* liked false that left no like document: the first was the same user's
\* toggle on the same itinerary, answered liked true.
C15_Witness ==
    /\ nReq = 2
    /\ reqs["r1"].kind = "like"
    /\ reqs["r1"].pc = "done" /\ reqs["r1"].status = 200
    /\ reqs["r1"].liked = "false"
    /\ likes = {}
    /\ cleanups = <<>> /\ 1 \in DOMAIN itineraries

\* The comment documents a step removes.
Removed == { c \in DOMAIN comments : c \notin DOMAIN comments' }

\* C16: a comment document is removed only by the delete of a DELETE comment
\* request whose token email is the email stored on the comment (or by the
\* cleanup of a deleted itinerary); a DELETE comment request whose get finds
\* another author's comment is answered 403 and one that finds no document
\* 404 (500 when the get itself threw), the comments unchanged.
C16_AuthorOnlyCommentDelete ==
    [][ /\ \A c \in Removed :
              \/ cleanups' # cleanups
              \/ \E s \in Slots :
                    /\ reqs[s].kind = "uncomment" /\ reqs[s].pc = "delete"
                    /\ reqs[s].cid = c /\ reqs[s].id = comments[c].itinerary
                    /\ reqs[s].email = comments[c].email
                    /\ reqs[s].auth = [scheme |-> "Bearer", token |-> comments[c].email]
                    /\ reqs'[s].pc = "done" /\ reqs'[s].status = 200
        /\ \A s \in Slots :
              (reqs[s].kind = "uncomment" /\ reqs[s].pc = "get" /\ reqs'[s] # reqs[s]) =>
                 /\ comments' = comments
                 /\ IF reqs'[s].threw THEN reqs'[s].pc = "done" /\ reqs'[s].status = 500
                    ELSE IF CommentAt(reqs[s].id, reqs[s].cid) = {}
                    THEN reqs'[s].pc = "done" /\ reqs'[s].status = 404
                    ELSE IF comments[reqs[s].cid].email # reqs[s].email
                    THEN reqs'[s].pc = "done" /\ reqs'[s].status = 403
                    ELSE reqs'[s].pc = "delete"
      ]_vars

\* C16 witness: a DELETE comment request by someone who is not the author,
\* answered 403, next to the comment.
C16_Witness ==
    \E s \in Slots :
        /\ reqs[s].kind = "uncomment"
        /\ reqs[s].pc = "done" /\ reqs[s].status = 403
        /\ CommentAt(reqs[s].id, reqs[s].cid) # {}
        /\ comments[reqs[s].cid].email # reqs[s].email

\* ------------------------------------------------- claims on the deletion
\* The delete of itinerary id shown on a connection was answered 200.
Deleted200(id) ==
    \E s \in Slots :
        /\ reqs[s].kind = "delete" /\ reqs[s].id = id
        /\ reqs[s].pc = "done" /\ reqs[s].status = 200

LikesOf(id) == { l \in likes : l.itinerary = id }
CommentsOf(id) == { c \in DOMAIN comments : comments[c].itinerary = id }

\* A DELETE is answered 200 exactly by the step in which its owner's DELETE
\* statement removes the row, and that step starts the cleanup of both
\* sub-collections; no other step starts a cleanup, and a DELETE answered
\* otherwise (403, 404, 500) removes no row and starts none.
DeleteStartsCleanup ==
    [][ /\ \A id \in DOMAIN cleanups' \ DOMAIN cleanups :
              \E s \in Slots :
                  /\ reqs[s].kind = "delete" /\ reqs[s].pc = "write"
                  /\ reqs[s].id = id
                  /\ reqs'[s].pc = "done" /\ reqs'[s].status = 200
        /\ \A s \in Slots :
              (reqs[s].kind = "delete" /\ reqs[s].pc \in {"check", "write"}
                 /\ reqs'[s].pc = "done") =>
                 IF reqs'[s].status = 200
                 THEN /\ reqs[s].pc = "write"
                      /\ reqs[s].id \in DOMAIN itineraries
                      /\ reqs[s].email \in OwnerEmails(reqs[s].id)
                      /\ reqs[s].id \notin DOMAIN itineraries'
                      /\ reqs[s].id \in DOMAIN cleanups'
                      /\ cleanups'[reqs[s].id] = {"likes", "comments"}
                 ELSE /\ reqs'[s].status \in {403, 404, 500}
                      /\ itineraries' = itineraries
                      /\ cleanups' = cleanups ]_vars

\* A DELETE answered 200 leads to the end of its cleanup run.
CleanupSettles ==
    \A id \in TargetIds : Deleted200(id) ~> (id \notin DOMAIN cleanups)

\* C17 (as claimed): a DELETE answered 200 leads to a state where the
\* itinerary has no like document and to one where it has no comment document;
\* the cleanup is started only by the step that removed the row and answers
\* 200, never for a DELETE answered 403, 404 or 500.
C17_DeleteTriggersCleanup ==
    /\ \A id \in TargetIds : Deleted200(id) ~> (LikesOf(id) = {})
    /\ \A id \in TargetIds : Deleted200(id) ~> (CommentsOf(id) = {})
    /\ DeleteStartsCleanup

\* The client's first request deleted itinerary 1, both recursive deletes
\* have settled, and the like and the comment of itinerary 1 are still there.
CleanupLost ==
    /\ nReq = 1
    /\ Deleted200(1)
    /\ cleanups = <<>>
    /\ LikesOf(1) # {} /\ CommentsOf(1) # {}

\* The client's first request deleted itinerary 1, and the like and the
\* comment it had are gone, the cleanup over.
CleanupDone ==
    /\ nReq = 1
    /\ Deleted200(1)
    /\ 1 \notin DOMAIN itineraries
    /\ cleanups = <<>>
    /\ likes = {} /\ comments = <<>>

\* ------------------------------------------- claims on missing entities
\* The ids INSERT gave out whose row is gone.
DeletedIds == { id \in 1..(nextId - 1) : id \notin DOMAIN itineraries }

\* Something is still at work on itinerary id: its cleanup, an AI task of
\* its creation, or a request naming it.
Busy(id) ==
    \/ id \in DOMAIN cleanups
    \/ id \in Running
    \/ \E s \in Slots : reqs[s].id = id /\ reqs[s].pc \notin {"idle", "done"}

\* C18 (as claimed): once an itinerary is deleted, its cleanup is over and no
\* task of its creation is running, GET /api/itineraries/:id/ai answers 404
\* for its id.
C18_DeletionCascadesToAiRecord ==
    \A id \in DeletedIds : ~Busy(id) => AiReadReply(id).status = 404

\* The request is about to learn that what it names does not exist.
Missing(r) ==
    \/ r.kind \in {"put", "delete"} /\ r.pc = "check" /\ r.id \notin DOMAIN itineraries
    \/ r.kind = "detail" /\ r.pc = "query" /\ r.id \notin DOMAIN itineraries
    \/ r.kind = "uncomment" /\ r.pc = "get" /\ CommentAt(r.id, r.cid) = {}
    \/ r.kind = "airead" /\ r.pc = "get" /\ r.id \notin DOMAIN aiDocs

\* C19 (as claimed): when the lookup of an itinerary detail, update, delete,
\* comment delete or AI read-back resolves for an id that does not exist,
\* the request is answered 404.
C19_MissingEntity404 ==
    [][ \A s \in Slots :
          (Missing(reqs[s]) /\ reqs'[s] # reqs[s] /\ ~reqs'[s].threw) =>
             (reqs'[s].pc = "done" /\ reqs'[s].status = 404) ]_vars

\* C20 (as claimed): a request during which a database, document-store,
\* object-storage or provider call threw is answered 500, and nothing of the
\* error is in the body.
C20_ErrorsAnswered500Generic ==
    \A s \in Slots :
        (reqs[s].pc = "done" /\ reqs[s].threw) =>
           (reqs[s].status = 500 /\ reqs[s].data = NoData)

\* ------------------------------------------------------ claims on travellers
\* C21 (as claimed): a valid POST /api/itineraries of an authenticated user
\* whose queries did not throw is answered 201 and leaves a traveller row for
\* the user's email, also when it is the user's first request.
C21_FirstCreateMakesTraveller ==
    \A s \in Slots :
        LET r == reqs[s]
        IN  (/\ r.kind = "create" /\ r.pc = "done"
             /\ r.email # "" /\ ~BodyRejected(r.body) /\ ~r.threw) =>
               (r.status = 201 /\ TravellerIds(r.email) # {})

\* C22 (as claimed): whatever POST /api/travellers/ensure requests were
\* made, no email has two traveller rows and every such request of a
\* verified user was answered 200 or 201.
C22_EnsureExactlyOneRow ==
    /\ \A u \in Users : Cardinality(TravellerIds(u)) <= 1
    /\ \A s \in Slots :
         (reqs[s].kind = "ensure" /\ reqs[s].pc = "done" /\ reqs[s].email # "") =>
            (reqs[s].status \in {200, 201} /\ Cardinality(TravellerIds(reqs[s].email)) = 1)

\* ------------------------------------------------ claims on the two editions
\* The request r of a finished creation as it was when its INSERT had
\* resolved: two store calls made, nothing of the AI part done yet.
Inserted(r) ==
    [r EXCEPT !.pc = "insert", !.status = 0, !.ai_status = "", !.suggestion = Null,
              !.ai_log_id = 0, !.invs = 0, !.ops = 2, !.threw = FALSE]

\* The verbose edition answers every creation whose INSERT resolved with 201,
\* ai_status 'error', no suggestion and no ai_log_id, having started the
\* background task only.
VerboseAnswersError ==
    \A s \in Slots :
        LET r == reqs[s]
        IN  (r.kind = "create" /\ r.pc = "done" /\ r.id \in DOMAIN itineraries) =>
               /\ AiFields(r) = [status |-> 201, ai_status |-> "error",
                                 suggestion |-> Null, ai_log_id |-> 0]
               /\ r.invs = 1 /\ r.ops = 2

\* C23 (as claimed): a POST /api/itineraries that server.js answers 201 is
\* answered by the verbose-logging edition with the same status, ai_status,
\* suggestion and ai_log_id.
C23_VerboseEditionSameReplies ==
    \A s \in Slots :
        LET r == reqs[s]
        IN  (r.kind = "create" /\ r.pc = "done" /\ r.status = 201) =>
               AiFields(VerboseCreateReply(Inserted(r))) = AiFields(r)

\* ---------------------------------------------------------- claims on avatars
JpegTypes == {"image/jpeg", "image/jpg"}

\* The object named after the email of the token the request carries.
OwnAvatar(r) == <<"avatar", BearerToken(r.auth), "jpg">>

\* C24: an upload whose file is not image/jpeg or image/jpg is answered 400 by
\* the handler of a ready server without a write; an upload answered 400,
\* 503 or 500 for the missing bucket name made no storage call; and every
\* step that changes the bucket is the save of an upload with a verified
\* token and a JPEG file, adding exactly avatar/<token email>.jpg.
C24_AvatarUploadOwnObjectOnly ==
    /\ [](\A s \in Slots :
            LET r == reqs[s]
            IN  (r.kind = "upload" /\ r.pc = "done") =>
                  /\ (r.status \in {400, 401, 503} \/ (r.status = 500 /\ ~r.threw)) => r.ops = 0
                  /\ r.status = 200 => (r.file \in JpegTypes /\ OwnAvatar(r) \in avatars)
                  /\ r.file \notin JpegTypes => r.ops = 0)
    /\ [][ /\ avatars' # avatars =>
                \E s \in Slots :
                    /\ reqs[s].kind = "upload" /\ reqs[s].pc = "save"
                    /\ reqs[s].file \in JpegTypes
                    /\ VerifyIdToken(BearerToken(reqs[s].auth))
                    /\ storage = "ready" /\ bucket
                    /\ avatars' = avatars \cup { OwnAvatar(reqs[s]) }
           /\ \A s \in Slots :
                (/\ reqs[s].kind = "upload" /\ reqs[s].pc = "multer"
                 /\ reqs'[s] # reqs[s] /\ reqs'[s].file \notin JpegTypes \cup {"none"}
                 /\ storage = "ready" /\ bucket) =>
                   (reqs'[s].pc = "done" /\ reqs'[s].status = 400 /\ avatars' = avatars)
       ]_vars

\* The client's second request, bob's JPEG upload with a text field in its
\* form, was answered 200 and the bucket holds bob's avatar and nothing else.
C24_Witness ==
    /\ nReq = 2
    /\ reqs["r1"].kind = "upload" /\ reqs["r1"].pc = "done" /\ reqs["r1"].status = 200
    /\ reqs["r1"].email = "bob" /\ reqs["r1"].body.title = "A"
    /\ avatars = { <<"avatar", "bob", "jpg">> }

\* ------------------------------------------------------- claims on the client
\* C25 (as claimed): no startAiPolling run starts more than maxTries timed
\* reads (tries counts the timer callbacks, each of which starts one read).
C25_PollingBounded ==
    \A n \in DOMAIN client.runs : client.runs[n].tries <= MaxTries

\* The answer to an AI read of run n reaches the component in this step.
ReadSettles(n) ==
    /\ n \in DOMAIN client.runs
    /\ \/ client.runs[n].pc = "firstAnswered" /\ client'.runs[n].pc # "firstAnswered"
       \/ BagCardinality(client'.runs[n].got) < BagCardinality(client.runs[n].got)

\* C30 (as claimed): at most one interval timer is live, it is the one
\* aiPollTimer holds and polls the selected itinerary, and every AI read that
\* settles, setting aiStatus, is a read of the selected itinerary.
C30_OneTimerForSelected ==
    /\ [](/\ Cardinality(client.live) <= 1
          /\ client.live \subseteq {client.aiPollTimer}
          /\ \A n \in client.live : client.runs[n].itinerary = client.selected)
    /\ [][\A n \in 1..MaxViews :
            ReadSettles(n) => client.runs[n].itinerary = client.selected]_vars

\* ----------------------------------------------- claims on the 201 response
\* C26 (as claimed): in every 201 of POST /api/itineraries suggestion is
\* non-null exactly when ai_status is ok, and ai_log_id is non-null exactly
\* when the foreground docRef.set of the creation resolved.
C26_ResponseFieldsConsistent ==
    \A s \in Slots :
        LET r == reqs[s]
        IN  (r.kind = "create" /\ r.pc = "done" /\ r.status = 201 /\ r.id \in DOMAIN gen) =>
              /\ Truthy(r.suggestion) <=> r.ai_status = "ok"
              /\ r.ai_log_id # 0 <=> Resolved(gen[r.id], "fg")

\* ------------------------------------------------ claims on earlier text
\* C27 (as claimed): a finished invocation none of whose provider calls threw
\* and one of whose recorded attempts had text returns text.
C27_EarlierTextKept ==
    (/\ orch.pc = "done"
     /\ ThrownCalls(orch) = <<>>
     /\ \E i \in 1..Len(orch.attempts) : orch.attempts[i].hadText) =>
        Truthy(orch.text)

\* ------------------------------------------ claims on model initialisation
\* C29 (as claimed): at most one initGemini run is in flight: the start-up
\* run and a run behind geminiInitInFlight are never under way together.
C29_SingleFlightInit == ~(startupInit # 0 /\ lazyInit # 0)

\* -------------------------------------------------- claims on overlapping likes
\* C28 (as claimed): when two like toggles of the same user on the same
\* itinerary, the only requests so far, have both been answered 200, the
\* like is as before the two (absent) and one answer was liked true, the
\* other liked false.
C28_NoLostToggle ==
    LET a == reqs["r1"]
        b == reqs["r2"]
    IN  (/\ nReq = 2
         /\ a.kind = "like" /\ a.pc = "done" /\ a.status = 200
         /\ b.kind = "like" /\ b.pc = "done" /\ b.status = 200
         /\ a.id = b.id /\ a.email = b.email) =>
           (Like(a.id, a.email) \notin likes /\ a.liked # b.liked)
====
